---- MODULE Spec2Model ----
(***************************************************************************)
(* A model of the task orchestration engine of robertcprice/orcha:         *)
(*   - PlanValidator and ClaudeExecutor driven by HybridOrchestrator       *)
(*     (chatgpt_planner.py, claude_executor.py, hybrid_orchestrator_v3.py) *)
(*   - HierarchicalAgent (hierarchical_agent.py)                           *)
(*   - the Codex/Claude refinement workflows                               *)
(*     (hybrid_codex_claude_workflow.py, hybrid_codex_claude_mcp.py)       *)
(*   - HybridOrchestratorV4.execute_goal_iterative                         *)
(*     (hybrid_orchestrator_v4_iterative.py)                               *)
(*   - SubOrchestrator and its manager agents                              *)
(*     (sub_orchestrator.py, manager_agents.py)                            *)
(*   - EnhancedOrchestrator (enhanced_orchestrator.py)                     *)
(*   - AutoOrchestrator around the dialogue run (auto_orchestrator.py)     *)
(*   - TaskMonitor (task_monitor.py)                                       *)
(* Each component has its own specification (SpecPlan, SpecAgent,          *)
(* SpecRefine, SpecDialogue, SpecValidator, SpecSub, SpecEnhanced,         *)
(* SpecAuto, SpecMonitor); the variables of the other components stay at   *)
(* their idle values. SpecStatus is the union of SpecAgent and SpecAuto,   *)
(* SpecSubFair and SpecMonitorFair add the fairness of the event loop.     *)
(***************************************************************************)
EXTENDS Integers, Sequences, FiniteSets, TLC

\* ------------------------------------------------------------------ bounds
\* number of tasks of a plan
NumTasks == 3
\* longest dependency list of one task
MaxDeps == 2
\* total number of dependency entries of a plan
MaxEdges == 2

\* largest max_depth of a HierarchicalAgent tree
MaxDepthBound == 2
\* most sub_agent_tasks a planner answer names
MaxChildren == 2
\* most agents of one tree
MaxAgents == 5

\* largest max_iterations of a refinement workflow
MaxIterations == 4
\* largest max_dialogue_turns of a dialogue run
MaxTurns == 3
\* largest number of calls of each PlanValidator method on one plan
MaxCalls == 2
\* number of subtasks of a main task
NumSubtasks == 3
\* largest number of dependency entries of the subtasks of a main task
MaxSubEdges == 2
\* number of main tasks of a decomposition
NumMainTasks == 3
\* largest number of dependency entries of the main tasks of a decomposition
MaxMainEdges == 2
\* largest priority value of a main task
MaxPriority == 2

\* the task files the monitor can find in its pending directories
NumFiles == 3
\* the different file names (stems) in the pending directories
NumStems == 3
\* the different task_id values the files can carry
NumTaskIds == 2
\* the largest max_concurrent_tasks of a monitor
MaxConcurrent == 2

\* ------------------------------------------------------------------ state
VARIABLES
    \* HybridOrchestrator.execute_goal / ClaudeExecutor.execute_plan
    plan,             \* the ExecutionPlan returned by the planner
    verbose,          \* execute_goal's verbose argument
    g_pc,             \* position inside execute_goal / execute_plan
    goal_result,      \* the dict execute_goal returned (or "none")
    task_order,       \* execute_plan: task_order
    pos,              \* execute_plan: index of the loop over task_order
    completed_tasks,  \* execute_plan: completed_tasks
    task_results,     \* execution_result.task_results
    tasks_succeeded,  \* execution_result.tasks_succeeded
    tasks_failed,     \* execution_result.tasks_failed
    execution_status, \* execution_result.status
    executed,         \* the task ids handed to _execute_single_task, in order
    \* HierarchicalAgent
    max_depth,        \* max_depth, the same for every agent of the tree
    agents,           \* the agents constructed so far; agents[1] is the root
    \* HybridCodexClaudeWorkflow / HybridCodexClaudeMCPWorkflow
    workflow,         \* "codex" or "mcp": which of the two classes runs
    max_iterations,   \* self.max_iterations
    r_pc,             \* the await execute() is suspended at
    current_iteration,\* self.current_iteration
    codex_iterations, \* self.codex_agent.iterations
    conversation_id,  \* whether the Codex MCP session has a conversation id
    codex_result,     \* the artifact of the latest CodexResult (0: none)
    codex_results,    \* self.codex_results, as artifacts
    claude_reviews,   \* self.claude_reviews: the artifact reviewed and the verdict
    r_result,         \* the HybridWorkflowResult returned (or "none")
    calls,            \* the collaborator calls made, in order
    collaborator_failed, \* an implementer or reviewer call has errored
    \* HybridOrchestratorV4.execute_goal_iterative
    max_dialogue_turns,  \* the argument of the run
    d_pc,                \* the stage the run is about to enter, or how it ended
    current_turn,        \* the local current_turn
    execution_complete,  \* the local execution_complete
    result_status,       \* execution_result.status
    stages,              \* execution_result.stages
    artifacts,           \* len(execution_result.artifacts)
    total_dialogue_turns,\* execution_result.total_dialogue_turns
    additional_info,     \* current_context["additional_info"]
    stage_results,       \* the answers of _claude_execute_stage, in order
    provider_calls,      \* the calls of _chatgpt_provide_information made
    failed_calls,        \* the stages whose collaborator call has failed
    executor_contexts,   \* the additional_info of the context of each executor call
    stage_requests,      \* the info_request_type of each executor answer, or "none"
    info_requests,       \* the InformationRequests _chatgpt_provide_information got
    \* PlanValidator called directly on the plan (test_plan_validation)
    validations,         \* the results of the validate_plan calls, in order
    circulars,           \* the results of the check_circular_dependencies calls
    \* SubOrchestrator.execute
    main_task,           \* self.main_task: the subtasks' dependencies, groups, complexity
    s_pc,                \* position inside execute / _execute_subtasks
    completed_subtasks,  \* _execute_direct: completed_subtasks
    remaining_subtasks,  \* _execute_direct: the keys of remaining_subtasks, in order
    ready_subtasks,      \* _execute_direct: the part of ready_subtasks not yet executed
    task_groups,         \* manage_tasks: the groups not yet executed
    manager_results,     \* manage_tasks: results
    subtask_results,     \* self.subtask_results
    main_status,         \* MainTaskResult.status
    start_log,           \* per subtask: the subtasks completed when its agent was started
    finished,            \* per subtask: how the agent that worked on it ended
    \* EnhancedOrchestrator.execute
    decomposition,       \* self.decomposition: dependencies, priorities, strategy
    e_pc,                \* position inside execute / _execute_main_tasks
    sorted_tasks,        \* _execute_main_tasks_sequential: sorted_tasks not yet run
    running,             \* _execute_main_tasks_parallel: coroutines not yet returned
    gathered,            \* _execute_main_tasks_parallel: what each coroutine returned
    main_task_results,   \* self.main_task_results
    overall_status,      \* EnhancedOrchestratorResult.overall_status
    main_start_log,      \* per main task: the main tasks completed when it was started
    \* AutoOrchestrator.execute_task around execute_goal_iterative
    a_pc,                \* position inside execute_task
    hierarchy,           \* self.hierarchy.agents, in the order of insertion
    stage_open,          \* the stage of the run that is awaiting its collaborator
    auto_result,         \* the dict execute_task returned (or "none")
    \* TaskMonitor
    task_queue,          \* the task files found in the pending directories
    max_concurrent_tasks,\* config.max_concurrent_tasks
    m_pc,                \* position inside start / _shutdown
    m_running,           \* self.running
    active_tasks,        \* self.active_tasks: task id -> the orchestrator run
    processing_tasks,    \* self.processing_tasks: file stems
    location,            \* per task file: the directories that hold it
    file_status,         \* per task file: the status written into it
    run_state,           \* per task file: the state of its _run_orchestrator task
    run_result,          \* per task file: what its orchestrator run reported
    callbacks,           \* the done callbacks scheduled and not yet run
    start_count          \* per task file: how often an orchestrator was started

planVars == <<plan, verbose, g_pc, goal_result, task_order, pos, completed_tasks,
              task_results, tasks_succeeded, tasks_failed, execution_status, executed>>

agentVars == <<max_depth, agents>>

refineVars == <<workflow, max_iterations, r_pc, current_iteration, codex_iterations,
                conversation_id, codex_result, codex_results, claude_reviews,
                r_result, calls, collaborator_failed>>

dialogueVars == <<max_dialogue_turns, d_pc, current_turn, execution_complete,
                  result_status, stages, artifacts, total_dialogue_turns,
                  additional_info, stage_results, provider_calls, failed_calls,
                  executor_contexts, stage_requests, info_requests>>

validatorVars == <<validations, circulars>>

subVars == <<main_task, s_pc, completed_subtasks, remaining_subtasks, ready_subtasks,
             task_groups, manager_results, subtask_results, main_status, start_log,
             finished>>

enhancedVars == <<decomposition, e_pc, sorted_tasks, running, gathered,
                  main_task_results, overall_status, main_start_log>>

autoVars == <<a_pc, hierarchy, stage_open, auto_result>>

monitorVars == <<task_queue, max_concurrent_tasks, m_pc, m_running, active_tasks,
                 processing_tasks, location, file_status, run_state, run_result,
                 callbacks, start_count>>

vars == <<planVars, agentVars, refineVars, dialogueVars, validatorVars, subVars,
          enhancedVars, autoVars, monitorVars>>

notPlanVars == <<agentVars, refineVars, dialogueVars, validatorVars, subVars, enhancedVars,
    autoVars, monitorVars>>
notAgentVars == <<planVars, refineVars, dialogueVars, validatorVars, subVars, enhancedVars,
    autoVars, monitorVars>>
notRefineVars == <<planVars, agentVars, dialogueVars, validatorVars, subVars, enhancedVars,
    autoVars, monitorVars>>
notDialogueVars == <<planVars, agentVars, refineVars, validatorVars, subVars, enhancedVars,
    autoVars, monitorVars>>
notValidatorVars == <<agentVars, refineVars, dialogueVars, subVars, enhancedVars,
    autoVars, monitorVars>>
notSubVars == <<planVars, agentVars, refineVars, dialogueVars, validatorVars, enhancedVars,
    autoVars, monitorVars>>
notEnhancedVars == <<planVars, agentVars, refineVars, dialogueVars, validatorVars, subVars,
    autoVars, monitorVars>>

\* execute_task runs the dialogue machine: its steps change both
notAutoVars == <<planVars, agentVars, refineVars, validatorVars, subVars, enhancedVars,
                 monitorVars>>
notMonitorVars == <<planVars, agentVars, refineVars, dialogueVars, validatorVars,
                    subVars, enhancedVars, autoVars>>

\* ------------------------------------------------------------------ helpers
AllTaskNames == <<"A", "B", "C", "D", "E">>
\* an id that is no task of any plan
Unknown == "X"

Ids == {AllTaskNames[i] : i \in 1..NumTasks}
AllIds == Ids \cup {Unknown}

Range(s) == {s[i] : i \in DOMAIN s}

InSeq(x, s) == \E i \in DOMAIN s : s[i] = x

\* list.index(x): the first position of x
IndexOf(x, s) == CHOOSE i \in DOMAIN s : s[i] = x /\ \A j \in 1..(i-1) : s[j] # x

\* sequences over S of length at most n
SeqsUpTo(S, n) == UNION {[1..k -> S] : k \in 0..n}

\* dict.get(key, default)
Get(d, k, default) == IF k \in DOMAIN d THEN d[k] ELSE default

\* ------------------------------------------------------------------ plans
\* The listings of the tasks of a plan: the ids in order and in reverse order.
Listing == [i \in 1..NumTasks |-> AllTaskNames[i]]
Reversed == [i \in 1..NumTasks |-> AllTaskNames[NumTasks + 1 - i]]
Listings == {Listing, Reversed}

\* dependency lists of at most n entries
DepLists(n) == SeqsUpTo(AllIds, IF n < MaxDeps THEN n ELSE MaxDeps)

\* the dependency lists of the tasks 1..i, with at most budget entries in all
RECURSIVE DepAssignments(_, _)
DepAssignments(i, budget) ==
    IF i = 0 THEN {<<>>}
    ELSE UNION {{Append(rest, l) : rest \in DepAssignments(i - 1, budget - Len(l))} :
                l \in DepLists(budget)}

\* the entries of a key that is no task: none, an empty list or one task
UnknownEntries == {<<>>, <<<<>>>>} \cup {<<<<AllTaskNames[1]>>>>}

\* plan.dependencies: a dict whose keys are the tasks that have a dependency
\* list and, possibly, an id that is no task
DependencyMaps ==
    {[k \in {AllTaskNames[i] : i \in {j \in 1..NumTasks : a[j] # <<>>}}
            \cup (IF u = <<>> THEN {} ELSE {Unknown})
        |-> IF k = Unknown THEN u[1]
            ELSE a[CHOOSE i \in 1..NumTasks : AllTaskNames[i] = k]] :
        a \in DepAssignments(NumTasks, MaxEdges), u \in UnknownEntries}

\* task_def["priority"]: at most one task of a plan is critical
PriorityMaps ==
    {[t \in Ids |-> IF t \in c THEN "critical" ELSE "medium"] :
        c \in {{}} \cup {{t} : t \in Ids}}

\* at most one task of a plan lacks a required field (agent, description,
\* acceptance_criteria)
MalformedSets == {{}} \cup {{AllTaskNames[1]}}

\* ExecutionPlan: tasks (a list of task dicts, here their task_id, their
\* priority and whether a required field is missing), dependencies, and
\* header: whether plan_id and goal are both non-empty. create_plan fills in
\* a plan_id, and the goal of the request, when the planner's answer has none.
Plans ==
    {[tasks |-> l, dependencies |-> d, priority |-> p, malformed |-> m,
      header |-> TRUE] :
        l \in Listings, d \in DependencyMaps, p \in PriorityMaps,
        m \in MalformedSets}

\* the keys of plan.dependencies in iteration order
DepKeys(p) ==
    LET inTasks == SelectSeq(p.tasks, LAMBDA t : t \in DOMAIN p.dependencies)
    IN IF Unknown \in DOMAIN p.dependencies THEN Append(inTasks, Unknown) ELSE inTasks

\* ------------------------------------------------------------------ PlanValidator
RECURSIVE TaskErrors(_, _)
TaskErrors(p, i) ==
    IF i > Len(p.tasks) THEN <<>>
    ELSE (IF p.tasks[i] \in p.malformed
          THEN <<[kind |-> "missing_field", task |-> p.tasks[i], dep |-> p.tasks[i]]>>
          ELSE <<>>) \o TaskErrors(p, i + 1)

\* the loop over deps without its membership test
DepErrorsUnchecked(task_ids, task_id, deps, j) == <<>>

RECURSIVE DepErrors(_, _, _, _)
DepErrors(task_ids, task_id, deps, j) ==
    IF j > Len(deps) THEN <<>>
    ELSE (IF deps[j] \notin task_ids
          THEN <<[kind |-> "nonexistent_dep", task |-> task_id, dep |-> deps[j]]>>
          ELSE <<>>) \o DepErrors(task_ids, task_id, deps, j + 1)

RECURSIVE DependencyErrors(_, _, _)
DependencyErrors(p, keys, i) ==
    IF i > Len(keys) THEN <<>>
    ELSE LET task_id == keys[i]
             task_ids == Range(p.tasks)
         IN (IF task_id \notin task_ids
             THEN <<[kind |-> "nonexistent_task", task |-> task_id, dep |-> task_id]>>
             ELSE <<>>)
            \o DepErrors(task_ids, task_id, p.dependencies[task_id], 1)
            \o DependencyErrors(p, keys, i + 1)

\* validate_plan with an errors list that outlives the call: the errors of
\* the call before are still in it
validate_plan_shared_errors(p) ==
    LET errors == (IF validations = <<>> THEN <<>>
                   ELSE validations[Len(validations)].errors)
                  \o (IF ~p.header
                      THEN <<[kind |-> "missing_header", task |-> Unknown, dep |-> Unknown]>>
                      ELSE <<>>)
                  \o TaskErrors(p, 1)
                  \o DependencyErrors(p, DepKeys(p), 1)
    IN [is_valid |-> Len(errors) = 0, errors |-> errors]

\* PlanValidator.validate_plan: (is_valid, errors)
validate_plan(p) ==
    LET errors == (IF ~p.header
                   THEN <<[kind |-> "missing_header", task |-> Unknown, dep |-> Unknown]>>
                   ELSE <<>>)
                  \o (IF Len(p.tasks) = 0
                   THEN <<[kind |-> "no_tasks", task |-> Unknown, dep |-> Unknown]>>
                   ELSE <<>>)
                  \o TaskErrors(p, 1)
                  \o DependencyErrors(p, DepKeys(p), 1)
    IN [is_valid |-> Len(errors) = 0, errors |-> errors]

\* the graph both check_circular_dependencies and _build_dependency_graph
\* build: every task, with its dependency list or []
BuildGraph(p) == [t \in Range(p.tasks) |-> Get(p.dependencies, t, <<>>)]

NoCycle == [kind |-> "none", path |-> <<>>]

\* has_cycle(node, visited, rec_stack, path): ret is "False", "True" (the
\* bool a caller returns for a truthy inner result) or "List" (path[cycle_start:])
RECURSIVE has_cycle(_, _, _, _, _)
RECURSIVE VisitNeighbors(_, _, _, _, _, _)
VisitNeighbors(graph, node, i, visited, rec_stack, path) ==
    LET nbrs == Get(graph, node, <<>>)
    IN IF i > Len(nbrs)
       THEN [ret |-> "False", path |-> <<>>, visited |-> visited]
       ELSE LET neighbor == nbrs[i]
            IN IF neighbor \notin visited
               THEN LET r == has_cycle(graph, neighbor, visited, rec_stack, path)
                    IN IF r.ret # "False"
                       THEN [ret |-> "True", path |-> <<>>, visited |-> r.visited]
                       ELSE VisitNeighbors(graph, node, i + 1, r.visited, rec_stack, path)
               ELSE IF neighbor \in rec_stack
               THEN [ret |-> "List",
                     path |-> SubSeq(path, IndexOf(neighbor, path), Len(path)),
                     visited |-> visited]
               ELSE VisitNeighbors(graph, node, i + 1, visited, rec_stack, path)

has_cycle(graph, node, visited, rec_stack, path) ==
    VisitNeighbors(graph, node, 1, visited \cup {node}, rec_stack \cup {node},
                   Append(path, node))

\* the scan that starts the search at the first node of the graph only
CycleScanFirstNode(graph, order, i, visited) ==
    IF i > Len(order) \/ i > 1 THEN [has_circular |-> FALSE, cycle |-> NoCycle]
    ELSE LET result == has_cycle(graph, order[i], visited, {}, <<>>)
         IN IF result.ret = "False"
            THEN [has_circular |-> FALSE, cycle |-> NoCycle]
            ELSE [has_circular |-> TRUE,
                  cycle |-> IF result.ret = "True"
                            THEN [kind |-> "bool", path |-> <<>>]
                            ELSE [kind |-> "list", path |-> result.path]]

RECURSIVE CycleScan(_, _, _, _)
CycleScan(graph, order, i, visited) ==
    IF i > Len(order) THEN [has_circular |-> FALSE, cycle |-> NoCycle]
    ELSE IF order[i] \in visited THEN CycleScan(graph, order, i + 1, visited)
    ELSE LET result == has_cycle(graph, order[i], visited, {}, <<>>)
         IN IF result.ret = "False"
            THEN CycleScan(graph, order, i + 1, result.visited)
            ELSE [has_circular |-> TRUE,
                  cycle |-> IF result.ret = "True"
                            THEN [kind |-> "bool", path |-> <<>>]
                            ELSE [kind |-> "list", path |-> result.path]]

\* PlanValidator.check_circular_dependencies: (has_circular_deps, cycle_if_found)
check_circular_dependencies(p) == CycleScan(BuildGraph(p), p.tasks, 1, {})

\* ------------------------------------------------------------------ ClaudeExecutor
\* ClaudeExecutor._build_dependency_graph
_build_dependency_graph(p) == BuildGraph(p)

\* the tasks whose in_degree is 0, in the order of the in_degree dict
InitialQueue(order, in_degree) == SelectSeq(order, LAMBDA t : in_degree[t] = 0)

\* the inner loop of _topological_sort: every task that lists task_id loses
\* one in-degree and is queued when it reaches 0
RECURSIVE ReleaseDependents(_, _, _, _, _, _)
ReleaseDependents(task_id, order, i, dep_graph, in_degree, queue) ==
    IF i > Len(order) THEN [in_degree |-> in_degree, queue |-> queue]
    ELSE LET tid == order[i]
         IN IF InSeq(task_id, dep_graph[tid])
            THEN LET deg == [in_degree EXCEPT ![tid] = @ - 1]
                 IN ReleaseDependents(task_id, order, i + 1, dep_graph, deg,
                                      IF deg[tid] = 0 THEN Append(queue, tid) ELSE queue)
            ELSE ReleaseDependents(task_id, order, i + 1, dep_graph, in_degree, queue)

RECURSIVE SortLoop(_, _, _, _, _)
SortLoop(order, dep_graph, in_degree, queue, result) ==
    IF queue = <<>> THEN result
    ELSE LET task_id == Head(queue)
             r == ReleaseDependents(task_id, order, 1, dep_graph, in_degree, Tail(queue))
         IN SortLoop(order, dep_graph, r.in_degree, r.queue, Append(result, task_id))

\* _topological_sort without the assignment in_degree[task_id] = len(deps):
\* every task starts with in-degree 0
_topological_sort_no_in_degree(tasks, dep_graph) ==
    LET in_degree == [t \in Range(tasks) |-> 0]
    IN SortLoop(tasks, dep_graph, in_degree, InitialQueue(tasks, in_degree), <<>>)

\* ClaudeExecutor._topological_sort(tasks, dep_graph)
_topological_sort(tasks, dep_graph) ==
    LET in_degree == [t \in Range(tasks) |-> Len(dep_graph[t])]
    IN SortLoop(tasks, dep_graph, in_degree, InitialQueue(tasks, in_degree), <<>>)

\* ------------------------------------------------------------------ execute_goal
NoResult == [status |-> "none", error |-> "none", cycle |-> NoCycle]

\* TaskResult: task_id and status
TaskResult(task_id, status) == [task_id |-> task_id, status |-> status]

\* the variables of the components a specification does not run
IdlePlan ==
    /\ plan = [tasks |-> <<>>, dependencies |-> <<>>, priority |-> <<>>,
               malformed |-> {}, header |-> TRUE]
    /\ verbose = FALSE
    /\ g_pc = "idle"
    /\ goal_result = NoResult
    /\ task_order = <<>>
    /\ pos = 1
    /\ completed_tasks = {}
    /\ task_results = <<>>
    /\ tasks_succeeded = 0
    /\ tasks_failed = 0
    /\ execution_status = "none"
    /\ executed = <<>>

IdleAgent ==
    /\ max_depth = 0
    /\ agents = <<>>

NoWorkflowResult ==
    [success |-> FALSE, final |-> 0, iterations |-> 0, error |-> "none",
     codex_iterations |-> 0, claude_reviews |-> 0]

IdleRefine ==
    /\ workflow = "none"
    /\ max_iterations = 0
    /\ r_pc = "idle"
    /\ current_iteration = 0
    /\ codex_iterations = 0
    /\ conversation_id = FALSE
    /\ codex_result = 0
    /\ codex_results = <<>>
    /\ claude_reviews = <<>>
    /\ r_result = NoWorkflowResult
    /\ calls = <<>>
    /\ collaborator_failed = FALSE

IdleValidator ==
    /\ validations = <<>>
    /\ circulars = <<>>

IdleEnhanced ==
    /\ decomposition = [dependencies |-> <<>>, priority |-> <<>>,
                        execution_strategy |-> "sequential"]
    /\ e_pc = "idle"
    /\ sorted_tasks = <<>>
    /\ running = {}
    /\ gathered = <<>>
    /\ main_task_results = <<>>
    /\ overall_status = "none"
    /\ main_start_log = <<>>

IdleSub ==
    /\ main_task = [dependencies |-> <<>>, group |-> <<>>, high |-> {}, manager |-> FALSE]
    /\ s_pc = "idle"
    /\ completed_subtasks = {}
    /\ remaining_subtasks = <<>>
    /\ ready_subtasks = <<>>
    /\ task_groups = <<>>
    /\ manager_results = <<>>
    /\ subtask_results = <<>>
    /\ main_status = "none"
    /\ start_log = <<>>
    /\ finished = <<>>

IdleDialogue ==
    /\ max_dialogue_turns = 0
    /\ d_pc = "idle"
    /\ current_turn = 0
    /\ execution_complete = FALSE
    /\ result_status = "running"
    /\ stages = <<>>
    /\ artifacts = 0
    /\ total_dialogue_turns = 0
    /\ additional_info = <<>>
    /\ stage_results = <<>>
    /\ provider_calls = 0
    /\ executor_contexts = <<>>
    /\ stage_requests = <<>>
    /\ info_requests = <<>>
    /\ failed_calls = {}

\* no AutoOrchestrator has been constructed
NoAutoResult == [status |-> "none", error |-> "none", orchestrator_result |-> "none"]

IdleAuto ==
    /\ a_pc = "idle"
    /\ hierarchy = <<>>
    /\ stage_open = "none"
    /\ auto_result = NoAutoResult

IdleMonitor ==
    /\ task_queue = <<>>
    /\ max_concurrent_tasks = 0
    /\ m_pc = "idle"
    /\ m_running = FALSE
    /\ active_tasks = <<>>
    /\ processing_tasks = {}
    /\ location = <<>>
    /\ file_status = <<>>
    /\ run_state = <<>>
    /\ run_result = <<>>
    /\ callbacks = {}
    /\ start_count = <<>>

InitPlan ==
    /\ plan \in Plans
    /\ verbose = FALSE
    /\ g_pc = "validate"
    /\ goal_result = NoResult
    /\ task_order = <<>>
    /\ pos = 1
    /\ completed_tasks = {}
    /\ task_results = <<>>
    /\ tasks_succeeded = 0
    /\ tasks_failed = 0
    /\ execution_status = "none"
    /\ executed = <<>>
    /\ IdleAgent
    /\ IdleRefine
    /\ IdleDialogue
    /\ IdleValidator
    /\ IdleSub
    /\ IdleEnhanced
    /\ IdleAuto
    /\ IdleMonitor

\* execute_goal: PlanValidator.validate_plan(plan) and the return on errors
ValidatePlan ==
    /\ g_pc = "validate"
    /\ verbose' \in BOOLEAN
    /\ IF validate_plan(plan).is_valid
       THEN /\ g_pc' = "check_circular"
            /\ UNCHANGED goal_result
       ELSE /\ g_pc' = "returned"
            /\ goal_result' = [status |-> "failed", error |-> "Plan validation failed",
                               cycle |-> NoCycle]
    /\ UNCHANGED <<plan, task_order, pos, completed_tasks, task_results,
                   tasks_succeeded, tasks_failed, execution_status, executed>>
    /\ UNCHANGED notPlanVars

\* ' -> '.join(cycle) raises TypeError unless cycle is a list of strings
JoinRaises(cycle) == cycle.kind # "list"

\* execute_goal: check_circular_dependencies(plan) and the return on a cycle
CheckCircular ==
    /\ g_pc = "check_circular"
    /\ LET r == check_circular_dependencies(plan)
       IN IF r.has_circular
          THEN IF verbose /\ JoinRaises(r.cycle)
               THEN /\ g_pc' = "raised"
                    /\ UNCHANGED goal_result
               ELSE /\ g_pc' = "returned"
                    /\ goal_result' = [status |-> "failed",
                                       error |-> "Circular dependencies in plan",
                                       cycle |-> r.cycle]
          ELSE /\ g_pc' = "execute_plan"
               /\ UNCHANGED goal_result
    /\ UNCHANGED <<plan, verbose, task_order, pos, completed_tasks, task_results,
                   tasks_succeeded, tasks_failed, execution_status, executed>>
    /\ UNCHANGED notPlanVars

\* execute_plan up to the loop: the execution result, the graph and the order
StartExecution ==
    /\ g_pc = "execute_plan"
    /\ task_order' = _topological_sort(plan.tasks, _build_dependency_graph(plan))
    /\ execution_status' = "running"
    /\ pos' = 1
    /\ completed_tasks' = {}
    /\ task_results' = <<>>
    /\ tasks_succeeded' = 0
    /\ tasks_failed' = 0
    /\ g_pc' = "loop"
    /\ UNCHANGED <<plan, verbose, goal_result, executed>>
    /\ UNCHANGED notPlanVars

DepsMet(task_id) ==
    LET deps == Get(plan.dependencies, task_id, <<>>)
    IN \A i \in DOMAIN deps : deps[i] \in completed_tasks

\* one iteration of the loop whose dependency check fails
SkipTask ==
    /\ g_pc = "loop"
    /\ pos <= Len(task_order)
    /\ ~DepsMet(task_order[pos])
    /\ task_results' = Append(task_results, TaskResult(task_order[pos], "skipped"))
    /\ pos' = pos + 1
    /\ UNCHANGED <<plan, verbose, g_pc, goal_result, task_order, completed_tasks,
                   tasks_succeeded, tasks_failed, execution_status, executed>>
    /\ UNCHANGED notPlanVars

\* one iteration of the loop that calls _execute_single_task, which answers
\* success or failed (an exception of the agent is caught and is failed)
RunTask ==
    /\ g_pc = "loop"
    /\ pos <= Len(task_order)
    /\ DepsMet(task_order[pos])
    /\ \E success \in BOOLEAN :
        LET task_id == task_order[pos]
        IN /\ executed' = Append(executed, task_id)
           /\ task_results' = Append(task_results,
                   TaskResult(task_id, IF success THEN "success" ELSE "failed"))
           /\ IF success
              THEN /\ tasks_succeeded' = tasks_succeeded + 1
                   /\ completed_tasks' = completed_tasks \cup {task_id}
                   /\ UNCHANGED tasks_failed
                   /\ g_pc' = "loop"
              ELSE /\ tasks_failed' = tasks_failed + 1
                   /\ UNCHANGED <<tasks_succeeded, completed_tasks>>
                   /\ g_pc' = IF plan.priority[task_id] = "critical"
                              THEN "finalize" ELSE "loop"
    /\ pos' = pos + 1
    /\ UNCHANGED <<plan, verbose, goal_result, task_order, execution_status>>
    /\ UNCHANGED notPlanVars

\* the loop over task_order is exhausted
LoopDone ==
    /\ g_pc = "loop"
    /\ pos > Len(task_order)
    /\ g_pc' = "finalize"
    /\ UNCHANGED <<plan, verbose, goal_result, task_order, pos, completed_tasks,
                   task_results, tasks_succeeded, tasks_failed, execution_status, executed>>
    /\ UNCHANGED notPlanVars

\* a status that looks at the successes only
OverallStatusBySuccesses(failed, succeeded) ==
    IF succeeded > 0 THEN "completed" ELSE "failed"

\* execute_plan: the overall status from the counters
OverallStatus(failed, succeeded) ==
    IF failed = 0 THEN "completed"
    ELSE IF succeeded > 0 THEN "partial"
    ELSE "failed"

\* execute_plan after the loop: the overall status; execute_goal then asks
\* the planner for a summary (a call that may raise) and returns
FinalizeExecution ==
    /\ g_pc = "finalize"
    /\ execution_status' = OverallStatus(tasks_failed, tasks_succeeded)
    /\ \E summarized \in BOOLEAN :
        IF summarized
        THEN /\ g_pc' = "returned"
             /\ goal_result' = [status |-> execution_status', error |-> "none",
                                cycle |-> NoCycle]
        ELSE /\ g_pc' = "raised"
             /\ UNCHANGED goal_result
    /\ UNCHANGED <<plan, verbose, task_order, pos, completed_tasks, task_results,
                   tasks_succeeded, tasks_failed, executed>>
    /\ UNCHANGED notPlanVars

NextPlan ==
    \/ ValidatePlan
    \/ CheckCircular
    \/ StartExecution
    \/ SkipTask
    \/ RunTask
    \/ LoopDone
    \/ FinalizeExecution

SpecPlan == InitPlan /\ [][NextPlan]_vars

\* ------------------------------------------------------------------ claims: plans
\* b names a as a prerequisite in plan.dependencies
DirectDep(b, a) == InSeq(a, Get(plan.dependencies, b, <<>>))

\* b depends on a directly or through a chain of at most n further tasks
RECURSIVE DependsWithin(_, _, _)
DependsWithin(b, a, n) ==
    \/ DirectDep(b, a)
    \/ n > 0 /\ \E c \in Ids : DirectDep(b, c) /\ DependsWithin(c, a, n - 1)

DependsOn(b, a) == DependsWithin(b, a, NumTasks)

\* the dependency map names an id that is no task of the plan
NamesUnknownTask ==
    \/ DOMAIN plan.dependencies \ Range(plan.tasks) # {}
    \/ \E k \in DOMAIN plan.dependencies :
          \E i \in DOMAIN plan.dependencies[k] :
              plan.dependencies[k][i] \notin Range(plan.tasks)

\* the dependency edges among the tasks contain a directed cycle
Cyclic == \E t \in Ids : DependsOn(t, t)

StatusesOf(t) ==
    {task_results[i].status : i \in {j \in DOMAIN task_results : task_results[j].task_id = t}}

\* execute_plan has returned its ExecutionResult
PlanExecuted == execution_status \in {"completed", "partial", "failed"}

\* C1: in execute_plan, a task B that depends, directly or through a chain,
\* on a task A that ended failed is never passed to the executor, and the
\* report records B with status skipped.
C1_DependentOfFailedIsSkipped ==
    PlanExecuted =>
        \A a, b \in Ids :
            ("failed" \in StatusesOf(a) /\ DependsOn(b, a)) =>
                /\ ~InSeq(b, executed)
                /\ StatusesOf(b) = {"skipped"}

\* C2: a plan whose dependency map names a non-existent task or contains a
\* cycle is rejected by execute_goal with a failed result, and no task is
\* executed and no task status or result changes.
C2_InvalidPlanRejected ==
    ((NamesUnknownTask \/ Cyclic) /\ g_pc \notin {"validate", "check_circular"}) =>
        /\ g_pc = "returned"
        /\ goal_result.status = "failed"
        /\ executed = <<>>
        /\ task_results = <<>>
        /\ execution_status = "none"

\* the order places the task at position i after all of its dependencies
PlacedAfterDeps(order, i) ==
    LET deps == Get(plan.dependencies, order[i], <<>>)
    IN \A k \in DOMAIN deps : \E j \in 1..(i - 1) : order[j] = deps[k]

\* C3: for a plan that is acyclic and refers only to existing tasks, the
\* order of _topological_sort, in which execute_plan considers the tasks,
\* places every task after all of its dependencies; a task that every other
\* task depends on is first.
C3_OrderRespectsDependencies ==
    (g_pc \in {"loop", "finalize"} /\ ~NamesUnknownTask /\ ~Cyclic) =>
        /\ \A i \in DOMAIN task_order : PlacedAfterDeps(task_order, i)
        /\ \A a \in Ids :
              (\A t \in Ids \ {a} : DirectDep(t, a)) => task_order[1] = a

\* C3 witness: tasks {A, B(dep A), C(dep A)}, listed C, B, A, are ordered A first
C3_Witness ==
    /\ g_pc = "loop"
    /\ plan.tasks = <<"C", "B", "A">>
    /\ plan.dependencies = [t \in {"B", "C"} |-> <<"A">>]
    /\ task_order = <<"A", "C", "B">>

\* the tasks passed to the executor after the first failed critical task
ExecutedAfterCriticalFailure ==
    {executed[i] : i \in {j \in DOMAIN executed :
        \E k \in 1..(j - 1) :
            /\ plan.priority[executed[k]] = "critical"
            /\ "failed" \in StatusesOf(executed[k])}}

\* C7: when a critical task fails, no further task is executed and every
\* task not yet executed is in the final report with status skipped.
C7_CriticalFailureSkipsRest ==
    (PlanExecuted /\ \E c \in Ids : plan.priority[c] = "critical"
                                     /\ "failed" \in StatusesOf(c)) =>
        /\ ExecutedAfterCriticalFailure = {}
        /\ \A t \in Ids \ Range(executed) : StatusesOf(t) = {"skipped"}

\* path is a closed walk along dependency edges: it begins and ends with the
\* same task and every task lists its successor as a dependency
ClosedCyclePath(path) ==
    /\ Len(path) >= 2
    /\ path[1] = path[Len(path)]
    /\ \A i \in 1..(Len(path) - 1) : DirectDep(path[i], path[i + 1])

\* C10: for a cyclic graph check_circular_dependencies returns the full
\* cycle path, a list of task ids that begins and ends with the same task;
\* for A -> B -> A it is [A, B, A].
C10_CyclePathReturned ==
    g_pc = "check_circular" =>
        LET r == check_circular_dependencies(plan)
        IN /\ r.has_circular => (r.cycle.kind = "list" /\ ClosedCyclePath(r.cycle.path))
           /\ (/\ plan.tasks[1] = "A"
               /\ plan.dependencies = [t \in {"A", "B"} |->
                                          IF t = "A" THEN <<"B">> ELSE <<"A">>])
                  => r.cycle = [kind |-> "list", path |-> <<"A", "B", "A">>]

\* ------------------------------------------------------------------ HierarchicalAgent
\* HierarchicalAgent.__init__: status "pending", no children, no result; pc
\* is the await the agent's execute() is suspended at ("created": execute()
\* not yet entered). spawn_requested, mode, failed_count, succeeded,
\* synth_calls, synthesized (the children whose results were passed to
\* _synthesize_results) and executor_answer (what the executor call of
\* _execute_directly gave) record what execute() did.
NewAgent(parent_id, depth) ==
    [parent_id |-> parent_id, depth |-> depth, status |-> "pending",
     result |-> "none", children |-> <<>>, pc |-> "created",
     spawn_requested |-> FALSE, mode |-> "none",
     failed_count |-> 0, succeeded |-> 0, synth_calls |-> 0,
     synthesized |-> <<>>, executor_answer |-> "none"]

AgentIds == DOMAIN agents

InitAgent ==
    /\ max_depth \in 0..MaxDepthBound
    /\ agents = <<NewAgent(0, 0)>>
    /\ IdlePlan
    /\ IdleRefine
    /\ IdleDialogue
    /\ IdleValidator
    /\ IdleSub
    /\ IdleEnhanced
    /\ IdleAuto
    /\ IdleMonitor

\* execute() is entered: of the root by its caller, of a child by the
\* asyncio.gather of its parent
StartExecute(a) ==
    /\ agents[a].pc = "created"
    /\ IF a = 1 THEN TRUE ELSE agents[agents[a].parent_id].pc = "gather"
    /\ agents' = [agents EXCEPT ![a].status = "active", ![a].pc = "planning"]
    /\ UNCHANGED max_depth
    /\ UNCHANGED notAgentVars

\* the depth test with <= in place of <
CanSpawnAtBound(needs_sub_agents, depth) == needs_sub_agents /\ depth <= max_depth

\* execute(): task_plan.get("needs_sub_agents") and self.depth < self.max_depth
CanSpawn(needs_sub_agents, depth) == needs_sub_agents /\ depth < max_depth

\* _plan_execution answered and execute() takes the direct branch: the next
\* await is the executor call of _execute_directly
PlanDirect(a) ==
    /\ agents[a].pc = "planning"
    /\ \E needs_sub_agents \in BOOLEAN :
        /\ ~CanSpawn(needs_sub_agents, agents[a].depth)
        /\ agents' = [agents EXCEPT ![a].pc = "direct", ![a].mode = "direct",
                                    ![a].spawn_requested = needs_sub_agents]
    /\ UNCHANGED max_depth
    /\ UNCHANGED notAgentVars

\* the ids of n agents constructed next
NewIds(n) == [i \in 1..n |-> Len(agents) + i]

\* _plan_execution answered with n sub_agent_tasks and execute() takes the
\* sub-agent branch: the children are constructed and gathered
SpawnSubAgents(a) ==
    /\ agents[a].pc = "planning"
    /\ CanSpawn(TRUE, agents[a].depth)
    /\ \E n \in 0..MaxChildren :
        /\ Len(agents) + n <= MaxAgents
        /\ agents' = [agents EXCEPT ![a].pc = "gather", ![a].mode = "sub_agents",
                                    ![a].spawn_requested = TRUE,
                                    ![a].children = NewIds(n)]
                      \o [i \in 1..n |-> NewAgent(a, agents[a].depth + 1)]
    /\ UNCHANGED max_depth
    /\ UNCHANGED notAgentVars

\* as SpawnSubAgents, but the entry after the first k sub_agent_tasks is no
\* dict: task_spec.get raises, execute() catches it and the agent fails
SpawnRaises(a) ==
    /\ agents[a].pc = "planning"
    /\ CanSpawn(TRUE, agents[a].depth)
    /\ \E k \in 0..(MaxChildren - 1) :
        /\ Len(agents) + k <= MaxAgents
        /\ agents' = [agents EXCEPT ![a].pc = "returned", ![a].mode = "sub_agents",
                                    ![a].spawn_requested = TRUE,
                                    ![a].children = NewIds(k),
                                    ![a].status = "failed",
                                    ![a].result = "failure"]
                      \o [i \in 1..k |-> NewAgent(a, agents[a].depth + 1)]
    /\ UNCHANGED max_depth
    /\ UNCHANGED notAgentVars

\* the "status" of the dict _execute_directly returns: "failure" when the
\* executor call failed, the parsed answer's status otherwise ("other": a
\* dict without a recognised status), "success" when the answer is no JSON
DirectResults == {"success", "failure", "other"}

\* what the executor call of _execute_directly gives: the call failed, or its
\* output holds a JSON object with status success, with status failure or
\* without a recognised status, or holds no JSON object
ExecutorAnswers == {"call_failed", "json_success", "json_failure", "json_other", "no_json"}

\* the "status" of the dict _execute_directly returns for the answer
_execute_directly(answer) ==
    CASE answer = "call_failed" -> "failure"
      [] answer = "json_success" -> "success"
      [] answer = "json_failure" -> "failure"
      [] answer = "json_other" -> "other"
      [] answer = "no_json" -> "success"

\* _execute_directly answered; execute() stores the result and completes
ExecuteDirectly(a) ==
    /\ agents[a].pc = "direct"
    /\ \E answer \in ExecutorAnswers :
        agents' = [agents EXCEPT ![a].pc = "returned",
                                 ![a].result = _execute_directly(answer),
                                 ![a].executor_answer = answer,
                                 ![a].status = "completed"]
    /\ UNCHANGED max_depth
    /\ UNCHANGED notAgentVars

\* a join that resumes as soon as one child has returned a failure
GatherUntilFailure(a) ==
    \/ \A i \in DOMAIN agents[a].children : agents[agents[a].children[i]].pc = "returned"
    \/ \E i \in DOMAIN agents[a].children :
          /\ agents[agents[a].children[i]].pc = "returned"
          /\ agents[agents[a].children[i]].result = "failure"

\* a join that resumes with the first finished child
GatherFirstCompleted(a) ==
    \/ agents[a].children = <<>>
    \/ \E i \in DOMAIN agents[a].children : agents[agents[a].children[i]].pc = "returned"

\* asyncio.gather(*[agent.execute() ...]) is complete
GatherComplete(a) ==
    \A i \in DOMAIN agents[a].children : agents[agents[a].children[i]].pc = "returned"

\* the children whose result counts as failed in the aggregation
FailedChildren(a) ==
    {i \in DOMAIN agents[a].children : agents[agents[a].children[i]].result = "failure"}

\* _execute_with_sub_agents after the gather: the aggregation of the child
\* results, up to the call of _synthesize_results
AggregateResults(a) ==
    /\ agents[a].pc = "gather"
    /\ GatherComplete(a)
    /\ agents' = [agents EXCEPT
            ![a].pc = "synthesizing",
            ![a].failed_count = Cardinality(FailedChildren(a)),
            ![a].succeeded = Len(agents[a].children) - Cardinality(FailedChildren(a)),
            ![a].synth_calls = @ + 1,
            ![a].synthesized = SelectSeq(agents[a].children,
                                         LAMBDA c : agents[c].result # "failure")]
    /\ UNCHANGED max_depth
    /\ UNCHANGED notAgentVars

\* the "status" of the dict _execute_with_sub_agents returns
SubAgentsStatus(failed_count) == IF failed_count = 0 THEN "success" ELSE "partial"

\* _synthesize_results answered (its summary or the fallback summary);
\* execute() stores the result and completes
SynthesizeResults(a) ==
    /\ agents[a].pc = "synthesizing"
    /\ agents' = [agents EXCEPT ![a].pc = "returned",
                                ![a].result = SubAgentsStatus(agents[a].failed_count),
                                ![a].status = "completed"]
    /\ UNCHANGED max_depth
    /\ UNCHANGED notAgentVars

NextAgent ==
    \/ \E a \in AgentIds : StartExecute(a)
    \/ \E a \in AgentIds : PlanDirect(a)
    \/ \E a \in AgentIds : SpawnSubAgents(a)
    \/ \E a \in AgentIds : SpawnRaises(a)
    \/ \E a \in AgentIds : ExecuteDirectly(a)
    \/ \E a \in AgentIds : AggregateResults(a)
    \/ \E a \in AgentIds : SynthesizeResults(a)

SpecAgent == InitAgent /\ [][NextAgent]_vars

\* ------------------------------------------------------------------ claims: agents
ChildrenOf(a) == {agents[a].children[i] : i \in DOMAIN agents[a].children}

\* C4: no agent is constructed with depth > max_depth; an agent at
\* depth = max_depth never creates children, also when the planner asks for
\* sub-agents: it executes directly and returns the executor's result.
C4_DepthBounded ==
    \A a \in AgentIds :
        /\ agents[a].depth <= max_depth
        /\ agents[a].depth = max_depth =>
              /\ agents[a].children = <<>>
              /\ agents[a].mode # "sub_agents"
              /\ agents[a].pc = "returned" =>
                    /\ agents[a].mode = "direct"
                    /\ agents[a].result \in DirectResults
                    /\ agents[a].status = "completed"

\* C4 witness: a child at depth = max_depth whose planner asked for
\* sub-agents has executed directly and returned
C4_Witness ==
    \E a \in AgentIds :
        /\ a > 1
        /\ agents[a].depth = max_depth
        /\ agents[a].spawn_requested
        /\ agents[a].pc = "returned"
        /\ agents[a].mode = "direct"

\* C8: a parent aggregates and synthesizes only after every child has a
\* terminal status, and no child is executing when the parent has returned.
C8_JoinBeforeAggregate ==
    \A a \in AgentIds :
        /\ agents[a].synth_calls > 0 =>
              \A c \in ChildrenOf(a) :
                  /\ agents[c].status \in {"completed", "failed"}
                  /\ agents[c].pc = "returned"
        /\ agents[a].pc = "returned" =>
              \A c \in ChildrenOf(a) : agents[c].status # "active"

\* C8 witness: a parent is synthesizing the results of two children, one of
\* which decomposed its own work
C8_Witness ==
    \E a \in AgentIds :
        /\ agents[a].pc = "synthesizing"
        /\ Len(agents[a].children) = 2
        /\ \E c \in ChildrenOf(a) : agents[c].mode = "sub_agents"

\* the status the claim expects of a parent of n children, ok of which succeeded
ExpectedParentStatus(n, ok) ==
    IF ok = n THEN "completed" ELSE IF ok > 0 THEN "partial" ELSE "failed"

\* the "status" of a result dict in the vocabulary of the claim
ResultAsStatus(r) ==
    IF r = "success" THEN "completed" ELSE IF r = "failure" THEN "failed" ELSE r

\* C9: after its children have run, a parent's status is completed if all
\* children succeeded, partial if some but not all did, failed if none did
\* (read off the agent's status or off the status of its result).
C9_ParentStatusFromChildren ==
    \A a \in AgentIds :
        (agents[a].pc = "returned" /\ agents[a].synth_calls > 0) =>
            LET expected == ExpectedParentStatus(Len(agents[a].children),
                                                 agents[a].succeeded)
            IN \/ agents[a].status = expected
               \/ ResultAsStatus(agents[a].result) = expected

\* ------------------------------------------------- refinement workflows
\* HybridCodexClaudeWorkflow.execute and HybridCodexClaudeMCPWorkflow.execute: an implementer
\* (CodexAgent / CodexMCPAgent) produces an artifact, a reviewer
\* (ClaudeReviewAgent / ClaudeCodeAgent) approves or rejects it, and the
\* implementer refines it on a rejection.

\* CodexAgent.max_iterations and CodexMCPAgent.max_iterations
CodexMaxIterations == 3

Workflows == {"codex", "mcp"}

InitRefine ==
    /\ workflow \in Workflows
    /\ max_iterations \in 0..MaxIterations
    /\ r_pc = "implement"
    /\ current_iteration = 0
    /\ codex_iterations = 0
    /\ conversation_id = FALSE
    /\ codex_result = 0
    /\ codex_results = <<>>
    /\ claude_reviews = <<>>
    /\ r_result = NoWorkflowResult
    /\ calls = <<>>
    /\ collaborator_failed = FALSE
    /\ IdlePlan
    /\ IdleAgent
    /\ IdleDialogue
    /\ IdleValidator
    /\ IdleSub
    /\ IdleEnhanced
    /\ IdleAuto
    /\ IdleMonitor

\* a HybridWorkflowResult built with the counters as they stand
WorkflowResult(success, final, error, n_results, n_reviews) ==
    [success |-> success, final |-> final, iterations |-> current_iteration,
     error |-> error, codex_iterations |-> n_results, claude_reviews |-> n_reviews]

\* the test of the while loop, taken with the value current_iteration has
\* after the increment: the loop is entered again, or the statement after
\* the loop returns
LoopTest(iteration, n_results) ==
    IF iteration <= max_iterations
    THEN /\ r_pc' = "review"
         /\ r_result' = r_result
    ELSE /\ r_pc' = "returned"
         /\ r_result' = [WorkflowResult(FALSE, 0, "Unexpected workflow termination",
                                        n_results, Len(claude_reviews))
                           EXCEPT !.iterations = iteration]

\* step 1: the initial implementation
_run_codex_implementation ==
    /\ r_pc = "implement"
    /\ calls' = Append(calls, "implement")
    /\ \E success \in BOOLEAN, has_id \in BOOLEAN :
        IF ~success
        THEN /\ r_pc' = "returned"
             /\ r_result' = [NoWorkflowResult EXCEPT
                                !.error = "Codex initial implementation failed"]
             /\ collaborator_failed' = TRUE
             /\ UNCHANGED <<current_iteration, conversation_id, codex_result,
                            codex_results>>
        ELSE /\ codex_result' = 1
             /\ codex_results' = Append(codex_results, 1)
             /\ conversation_id' = (workflow = "mcp" /\ has_id)
             /\ current_iteration' = current_iteration + 1
             /\ LoopTest(current_iteration + 1, 1)
             /\ UNCHANGED collaborator_failed
    /\ UNCHANGED <<workflow, max_iterations, codex_iterations, claude_reviews>>
    /\ UNCHANGED notRefineVars

Verdicts == {"approved", "rejected", "error"}

\* the review of the latest artifact and the two tests that follow it.
\* ClaudeReviewAgent.review turns its own errors into a rejection;
\* ClaudeCodeAgent.review lets them out, to the except clause of execute.
_run_claude_review ==
    /\ r_pc = "review"
    /\ calls' = Append(calls, "review")
    /\ \E verdict \in Verdicts :
        IF verdict = "error" /\ workflow = "mcp"
        THEN /\ r_pc' = "returned"
             /\ r_result' = WorkflowResult(FALSE, 0, "exception",
                                           Len(codex_results), Len(claude_reviews))
             /\ collaborator_failed' = TRUE
             /\ UNCHANGED claude_reviews
        ELSE /\ claude_reviews' = Append(claude_reviews,
                    [artifact |-> codex_result, approved |-> (verdict = "approved")])
             /\ collaborator_failed' = (collaborator_failed \/ verdict = "error")
             /\ IF verdict = "approved"
                THEN /\ r_pc' = "returned"
                     /\ r_result' = WorkflowResult(TRUE, codex_result, "none",
                                        Len(codex_results), Len(claude_reviews) + 1)
                ELSE IF current_iteration >= max_iterations
                THEN /\ r_pc' = "returned"
                     /\ r_result' = WorkflowResult(FALSE, codex_result,
                                        "Max iterations reached without approval",
                                        Len(codex_results), Len(claude_reviews) + 1)
                ELSE /\ r_pc' = "refine"
                     /\ UNCHANGED r_result
    /\ UNCHANGED <<workflow, max_iterations, current_iteration, codex_iterations,
                   conversation_id, codex_result, codex_results>>
    /\ UNCHANGED notRefineVars

\* a refine operation that refuses only for the missing conversation id
RefinementRefusedWithoutCount(iterations) ==
    workflow = "mcp" /\ ~conversation_id

\* refine_with_feedback answers without the implementer when the agent's own
\* count is used up, or (MCP) when the session has no conversation id
RefinementRefused(iterations) ==
    \/ iterations >= CodexMaxIterations
    \/ workflow = "mcp" /\ ~conversation_id

\* a refinement whose result is not handed on: the loop keeps the old artifact
_run_codex_refinement_stale ==
    /\ r_pc = "refine"
    /\ calls' = Append(calls, "refine")
    /\ codex_iterations' = codex_iterations + 1
    /\ \E success \in BOOLEAN :
        IF RefinementRefused(codex_iterations + 1) \/ ~success
        THEN /\ r_pc' = "returned"
             /\ r_result' = WorkflowResult(FALSE, 0, "Codex refinement failed",
                                           Len(codex_results), Len(claude_reviews))
             /\ collaborator_failed' =
                    (collaborator_failed \/ ~RefinementRefused(codex_iterations + 1))
             /\ UNCHANGED <<current_iteration, codex_result, codex_results>>
        ELSE /\ codex_result' = codex_result
             /\ codex_results' = Append(codex_results, codex_result)
             /\ current_iteration' = current_iteration + 1
             /\ LoopTest(current_iteration + 1, Len(codex_results) + 1)
             /\ UNCHANGED collaborator_failed
    /\ UNCHANGED <<workflow, max_iterations, conversation_id, claude_reviews>>
    /\ UNCHANGED notRefineVars

\* the refinement of a rejected artifact
_run_codex_refinement ==
    /\ r_pc = "refine"
    /\ calls' = Append(calls, "refine")
    /\ codex_iterations' = codex_iterations + 1
    /\ \E success \in BOOLEAN :
        IF RefinementRefused(codex_iterations + 1) \/ ~success
        THEN /\ r_pc' = "returned"
             /\ r_result' = WorkflowResult(FALSE, 0, "Codex refinement failed",
                                           Len(codex_results), Len(claude_reviews))
             /\ collaborator_failed' =
                    (collaborator_failed \/ ~RefinementRefused(codex_iterations + 1))
             /\ UNCHANGED <<current_iteration, codex_result, codex_results>>
        ELSE /\ codex_result' = codex_result + 1
             /\ codex_results' = Append(codex_results, codex_result + 1)
             /\ current_iteration' = current_iteration + 1
             /\ LoopTest(current_iteration + 1, Len(codex_results) + 1)
             /\ UNCHANGED collaborator_failed
    /\ UNCHANGED <<workflow, max_iterations, conversation_id, claude_reviews>>
    /\ UNCHANGED notRefineVars

NextRefine ==
    \/ _run_codex_implementation
    \/ _run_claude_review
    \/ _run_codex_refinement

SpecRefine == InitRefine /\ [][NextRefine]_vars

\* ------------------------------------------------- claims: refinement

\* the number of reviewer calls of the run
ReviewerCalls == Cardinality({i \in DOMAIN calls : calls[i] = "review"})

\* the reviewer has answered every call with something other than an approval
NeverApproved == \A i \in DOMAIN claude_reviews : ~claude_reviews[i].approved

\* C5: a run makes at most max_iterations + 1 reviewer calls, and a run in
\* which the reviewer never approves (and no collaborator call errors) returns
\* a failure whose iterations is max_iterations and which carries the artifact
\* of the last attempt.
C5_BoundedReviewsAndExhaustion ==
    /\ ReviewerCalls <= max_iterations + 1
    /\ (r_pc = "returned" /\ NeverApproved /\ ~collaborator_failed) =>
          /\ ~r_result.success
          /\ r_result.iterations = max_iterations
          /\ r_result.final # 0
          /\ r_result.final = codex_result

\* ------------------------------------------------- dialogue machine
\* HybridOrchestratorV4.execute_goal_iterative: analysis, planning, a loop of
\* execution turns, a conditional review, and a summary.

\* the locals and the ExecutionResult at the entry of execute_goal_iterative
EnterDialogue ==
    /\ max_dialogue_turns \in 0..MaxTurns
    /\ d_pc = "analysis"
    /\ current_turn = 0
    /\ execution_complete = FALSE
    /\ result_status = "running"
    /\ stages = <<>>
    /\ artifacts = 0
    /\ total_dialogue_turns = 0
    /\ additional_info = <<>>
    /\ stage_results = <<>>
    /\ provider_calls = 0
    /\ executor_contexts = <<>>
    /\ stage_requests = <<>>
    /\ info_requests = <<>>
    /\ failed_calls = {}

InitDialogue ==
    /\ EnterDialogue
    /\ IdlePlan
    /\ IdleAgent
    /\ IdleRefine
    /\ IdleValidator
    /\ IdleSub
    /\ IdleEnhanced
    /\ IdleAuto
    /\ IdleMonitor

\* a DialogueStage: its type, its status, and whether end_time is set
DialogueStage(stage_type, status, ended) ==
    [stage_type |-> stage_type, status |-> status, end_time |-> ended]

\* the condition of the while loop, with current_turn past the budget by one
LoopContinuesPastBudget(complete, turn) ==
    ~complete /\ turn <= max_dialogue_turns + 1

\* the condition of the while loop
LoopContinues(complete, turn) ==
    ~complete /\ turn <= max_dialogue_turns

\* a review after every completed execution, with or without artifacts
AfterLoopReviewAlways(complete, n_artifacts) ==
    IF complete THEN "review" ELSE "summary"

\* where the run goes when the loop is left: the review stage if execution
\* completed with artifacts, the summary stage otherwise
AfterLoop(complete, n_artifacts) ==
    IF complete /\ n_artifacts > 0 THEN "review" ELSE "summary"

\* where the run goes from the loop test
FromLoopTest(complete, turn, n_artifacts) ==
    IF LoopContinues(complete, turn) THEN "execute"
    ELSE AfterLoop(complete, n_artifacts)

\* stage 1: _claude_initial_analysis falls back to a default request on
\* every error, so the stage always completes
AnalysisStageStep ==
    /\ d_pc = "analysis"
    /\ \E answered \in BOOLEAN :
          failed_calls' = IF answered THEN failed_calls
                          ELSE failed_calls \cup {"analysis"}
    /\ stages' = Append(stages, DialogueStage("analysis", "completed", TRUE))
    /\ d_pc' = "planning"
    /\ UNCHANGED <<max_dialogue_turns, current_turn, execution_complete,
                   result_status, artifacts, total_dialogue_turns,
                   additional_info, stage_results, provider_calls, executor_contexts,
                   stage_requests, info_requests>>

\* the same as a step of execute_goal_iterative called on its own
AnalysisStage == AnalysisStageStep /\ UNCHANGED notDialogueVars

\* stage 2: ChatGPTPlanner.create_plan is awaited outside any try block; the
\* loop variables are set and the loop is tested for the first time
PlanningStageStep ==
    /\ d_pc = "planning"
    /\ \E planned \in BOOLEAN :
        IF ~planned
        THEN /\ stages' = Append(stages, DialogueStage("planning", "in_progress", FALSE))
             /\ d_pc' = "raised"
             /\ failed_calls' = failed_calls \cup {"planning"}
             /\ UNCHANGED <<current_turn, total_dialogue_turns>>
        ELSE /\ stages' = Append(stages, DialogueStage("planning", "completed", TRUE))
             /\ total_dialogue_turns' = total_dialogue_turns + 1
             /\ current_turn' = 1
             /\ d_pc' = FromLoopTest(FALSE, 1, artifacts)
             /\ UNCHANGED failed_calls
    /\ UNCHANGED <<max_dialogue_turns, execution_complete, result_status, artifacts,
                   additional_info, stage_results, provider_calls, executor_contexts,
                   stage_requests, info_requests>>

\* the same as a step of execute_goal_iterative called on its own
PlanningStage == PlanningStageStep /\ UNCHANGED notDialogueVars

StageStatuses == {"complete", "failed", "in_progress"}

\* stages with the status and end_time of the last one set
EndLastStage(ss, status) ==
    [ss EXCEPT ![Len(ss)] = DialogueStage(ss[Len(ss)].stage_type, status, TRUE)]

\* the request types an executor answer can name; "missing": the answer has no
\* info_request_type
InfoRequestTypes == {"web_search", "research", "missing"}

\* stage_result.get("info_request_type", "clarification")
RequestType(info_request_type) ==
    IF info_request_type = "missing" THEN "clarification" ELSE info_request_type

\* an update of the context that keeps the newest answer only
UpdateContextNewestOnly(context, asked, turn, request_type) ==
    IF asked THEN <<[turn |-> turn, request_type |-> request_type]>> ELSE context

\* current_context["additional_info"].append({"turn": ..., "request": ...,
\* "response": ...}) when the answer asked for information
UpdateContext(context, asked, turn, request_type) ==
    IF asked THEN Append(context, [turn |-> turn, request_type |-> request_type])
    ELSE context

\* one pass of the loop body: the executor answers; a malformed answer or a
\* failing information provider raises out of the run; 'complete' ends the
\* loop, 'failed' breaks out of it, anything else goes to the next turn
ExecutionTurnStep ==
    /\ d_pc = "execute"
    /\ \E status \in StageStatuses, needs_more_info \in BOOLEAN,
          well_formed \in BOOLEAN, provided \in BOOLEAN, produced \in 0..1,
          info_request_type \in InfoRequestTypes :
        LET started == Append(stages, DialogueStage("execution", "in_progress", FALSE))
            asked == well_formed /\ needs_more_info
            new_request == [turn |-> current_turn,
                            request_type |-> RequestType(info_request_type)]
        IN /\ stage_results' = Append(stage_results, status)
           /\ executor_contexts' = Append(executor_contexts, additional_info)
           /\ stage_requests' = Append(stage_requests,
                                       IF asked THEN info_request_type ELSE "none")
           /\ provider_calls' = IF asked THEN provider_calls + 1 ELSE provider_calls
           /\ info_requests' = IF asked THEN Append(info_requests, new_request)
                               ELSE info_requests
           /\ failed_calls' = IF asked /\ ~provided
                               THEN failed_calls \cup {"information"}
                               ELSE failed_calls
           /\ IF ~well_formed \/ (asked /\ ~provided)
              THEN /\ stages' = started
                   /\ d_pc' = "raised"
                   /\ UNCHANGED <<current_turn, execution_complete, result_status,
                                  artifacts, total_dialogue_turns, additional_info>>
              ELSE /\ additional_info' =
                          UpdateContext(additional_info, asked, current_turn,
                                        new_request.request_type)
                   /\ total_dialogue_turns' =
                          IF asked THEN total_dialogue_turns + 1 ELSE total_dialogue_turns
                   /\ IF status = "failed"
                      THEN /\ result_status' = "failed"
                           /\ stages' = started
                           /\ d_pc' = AfterLoop(execution_complete, artifacts)
                           /\ UNCHANGED <<current_turn, execution_complete, artifacts>>
                      ELSE /\ execution_complete' = (status = "complete")
                           /\ artifacts' = IF status = "complete"
                                           THEN artifacts + produced ELSE artifacts
                           /\ stages' = EndLastStage(started, "completed")
                           /\ current_turn' = current_turn + 1
                           /\ d_pc' = FromLoopTest(status = "complete", current_turn + 1,
                                                   artifacts')
                           /\ UNCHANGED result_status
    /\ UNCHANGED max_dialogue_turns

\* the same as a step of execute_goal_iterative called on its own
ExecutionTurn == ExecutionTurnStep /\ UNCHANGED notDialogueVars

\* stage 3.5: _ar_review_implementation answers with a dict on every error,
\* so the stage always completes
ReviewStageStep ==
    /\ d_pc = "review"
    /\ \E reviewed \in BOOLEAN :
          failed_calls' = IF reviewed THEN failed_calls
                          ELSE failed_calls \cup {"review"}
    /\ stages' = Append(stages, DialogueStage("review", "completed", TRUE))
    /\ d_pc' = "summary"
    /\ UNCHANGED <<max_dialogue_turns, current_turn, execution_complete,
                   result_status, artifacts, total_dialogue_turns,
                   additional_info, stage_results, provider_calls, executor_contexts,
                   stage_requests, info_requests>>

\* the same as a step of execute_goal_iterative called on its own
ReviewStage == ReviewStageStep /\ UNCHANGED notDialogueVars

\* stage 4 and the final status: _claude_generate_summary answers with a
\* string on every error; the status is kept if failed
SummaryStageStep ==
    /\ d_pc = "summary"
    /\ \E summarized \in BOOLEAN :
          failed_calls' = IF summarized THEN failed_calls
                          ELSE failed_calls \cup {"summary"}
    /\ stages' = Append(stages, DialogueStage("summary", "completed", TRUE))
    /\ result_status' = IF result_status # "failed"
                        THEN IF execution_complete THEN "completed" ELSE "partial"
                        ELSE result_status
    /\ d_pc' = "returned"
    /\ UNCHANGED <<max_dialogue_turns, current_turn, execution_complete, artifacts,
                   total_dialogue_turns, additional_info, stage_results,
                   provider_calls, executor_contexts,
                   stage_requests, info_requests>>

\* the same as a step of execute_goal_iterative called on its own
SummaryStage == SummaryStageStep /\ UNCHANGED notDialogueVars

NextDialogue ==
    \/ AnalysisStage
    \/ PlanningStage
    \/ ExecutionTurn
    \/ ReviewStage
    \/ SummaryStage

SpecDialogue == InitDialogue /\ [][NextDialogue]_vars

\* ------------------------------------------------- claims: dialogue

\* the number of executor calls of the run
ExecutorCalls == Len(stage_results)

\* no executor answer of the run was 'complete' or 'failed'
NoFinalAnswer ==
    \A i \in DOMAIN stage_results : stage_results[i] \notin {"complete", "failed"}

\* the loop was left because current_turn went past max_dialogue_turns
BudgetUsedUp == d_pc \notin {"analysis", "planning"} /\ current_turn > max_dialogue_turns

\* C6: the executor is called at most max_dialogue_turns times; once the turn
\* budget is used up without a 'complete' or 'failed' answer the run does not
\* raise, and it returns with overall status partial; a run that returns
\* without such an answer has made all max_dialogue_turns executor calls.
C6_TurnBudget ==
    /\ ExecutorCalls <= max_dialogue_turns
    /\ (BudgetUsedUp /\ NoFinalAnswer) =>
          /\ d_pc # "raised"
          /\ d_pc = "returned" => result_status = "partial"
    /\ (d_pc = "returned" /\ NoFinalAnswer) =>
          /\ ExecutorCalls = max_dialogue_turns
          /\ result_status = "partial"

\* C6 witness: a run of two turns, on the first of which the executor asked
\* for information, has returned partial
C6_Witness ==
    /\ d_pc = "returned"
    /\ max_dialogue_turns = 2
    /\ ExecutorCalls = 2
    /\ NoFinalAnswer
    /\ provider_calls > 0
    /\ result_status = "partial"

\* ------------------------------------------------- PlanValidator, called directly
\* The two static methods of PlanValidator applied to a plan as
\* test_plan_validation applies them: any plan, checked or not, any number
\* of times.

\* a plan without tasks, whose dependency map is empty or has one key
EmptyPlans ==
    {[tasks |-> <<>>, dependencies |-> d, priority |-> [t \in Ids |-> "medium"],
      malformed |-> {}, header |-> h] :
        d \in {<<>>, [k \in {Unknown} |-> <<>>]}, h \in BOOLEAN}

\* the plans handed to the validator: with or without plan_id and goal, with
\* or without tasks; the validator does not read the priorities
ValidatorPlans ==
    {[tasks |-> l, dependencies |-> d, priority |-> [t \in Ids |-> "medium"],
      malformed |-> m, header |-> h] :
        l \in Listings, d \in DependencyMaps, m \in MalformedSets, h \in BOOLEAN}
    \cup EmptyPlans

InitValidator ==
    /\ plan \in ValidatorPlans
    /\ verbose = FALSE
    /\ g_pc = "idle"
    /\ goal_result = NoResult
    /\ task_order = <<>>
    /\ pos = 1
    /\ completed_tasks = {}
    /\ task_results = <<>>
    /\ tasks_succeeded = 0
    /\ tasks_failed = 0
    /\ execution_status = "none"
    /\ executed = <<>>
    /\ validations = <<>>
    /\ circulars = <<>>
    /\ IdleAgent
    /\ IdleRefine
    /\ IdleDialogue
    /\ IdleSub
    /\ IdleEnhanced
    /\ IdleAuto
    /\ IdleMonitor

\* PlanValidator.validate_plan(plan): the method only reads the plan
CallValidatePlan ==
    /\ g_pc = "idle"
    /\ Len(validations) < MaxCalls
    /\ validations' = Append(validations, validate_plan(plan))
    /\ UNCHANGED <<planVars, circulars>>
    /\ UNCHANGED notValidatorVars

\* PlanValidator.check_circular_dependencies(plan): the method builds its
\* own graph, visited set, rec_stack and path, and only reads the plan
CallCheckCircular ==
    /\ g_pc = "idle"
    /\ Len(circulars) < MaxCalls
    /\ circulars' = Append(circulars, check_circular_dependencies(plan))
    /\ UNCHANGED <<planVars, validations>>
    /\ UNCHANGED notValidatorVars

NextValidator ==
    \/ CallValidatePlan
    \/ CallCheckCircular

SpecValidator == InitValidator /\ [][NextValidator]_vars

\* ------------------------------------------------- claims: PlanValidator

\* C11: check_circular_dependencies reports has_circular = true exactly when
\* the dependency edges among the plan's tasks contain a directed cycle,
\* of any length and anywhere in the plan, and false for every acyclic plan.
C11_CycleDetectedIffCyclic ==
    \A i \in DOMAIN circulars : circulars[i].has_circular <=> Cyclic

\* C11 witness: a cycle that does not pass through the first task of the
\* listing has been reported, in a plan that also names an unknown task
C11_Witness ==
    /\ circulars # <<>>
    /\ circulars[1].has_circular
    /\ ~DependsOn(plan.tasks[1], plan.tasks[1])
    /\ \E t \in Ids : DependsOn(t, t) /\ ~DirectDep(t, t)
    /\ NamesUnknownTask

\* the kinds of error validate_plan reports for an id that is no task
UnknownIdErrors == {"nonexistent_task", "nonexistent_dep"}

\* C12: validate_plan reports an error whenever the dependency map names, as
\* dependent or as prerequisite, an id that is no task of the plan, and it
\* accepts a plan (one with plan_id, goal and at least one task) whose tasks
\* are well-formed and whose dependency edges all resolve to existing tasks.
C12_UnknownIdsRejected ==
    \A i \in DOMAIN validations :
        /\ NamesUnknownTask =>
              /\ ~validations[i].is_valid
              /\ \E j \in DOMAIN validations[i].errors :
                    validations[i].errors[j].kind \in UnknownIdErrors
        /\ (/\ plan.header
            /\ Len(plan.tasks) > 0
            /\ plan.malformed = {}
            /\ ~NamesUnknownTask) => validations[i].is_valid

\* C12 witness: a plan whose only fault is a prerequisite that is no task
\* has been rejected
C12_Witness ==
    /\ validations # <<>>
    /\ ~validations[1].is_valid
    /\ plan.header /\ plan.malformed = {}
    /\ DOMAIN plan.dependencies \subseteq Range(plan.tasks)
    /\ NamesUnknownTask

ExhaustedBudget == "Max iterations reached without approval"

\* C14: once an implementer call or a reviewer call of a refinement run has
\* errored, the loop has stopped (no further review or refine call is made)
\* and the run has returned a failure that is not the exhausted-budget
\* outcome 'max iterations reached without approval'.
C14_CollaboratorErrorAborts ==
    collaborator_failed =>
        /\ r_pc = "returned"
        /\ ~r_result.success
        /\ r_result.error # ExhaustedBudget

\* the reviews of the run that did not approve
RejectedReviews == {i \in DOMAIN claude_reviews : ~claude_reviews[i].approved}

\* C15: on approval the reported iterations equals the number of rejected
\* attempts that preceded the approval; with max_iterations = 3 and a
\* reviewer that rejects the first two artifacts and approves the third, the
\* run returns success with iterations = 2.
C15_IterationsCountRejections ==
    /\ (r_pc = "returned" /\ r_result.success) =>
          r_result.iterations = Cardinality(RejectedReviews)
    /\ (/\ r_pc = "returned"
        /\ max_iterations = 3
        /\ Len(claude_reviews) = 3
        /\ RejectedReviews = {1, 2}) =>
          (r_result.success /\ r_result.iterations = 2)

\* ------------------------------------------------- claims: dialogue, continued

\* C16: when the executor has answered 'failed' on an execution turn, no
\* further executor turn, no review stage and no summary stage is started
\* after that turn, and the overall status of the run is failed.
C16_FailedAnswerAborts ==
    \A i \in DOMAIN stage_results :
        stage_results[i] = "failed" =>
            /\ i = Len(stage_results)
            /\ stages[Len(stages)].stage_type = "execution"
            /\ d_pc \in {"returned", "summary", "review"} => result_status = "failed"

\* every stage recorded so far has the status completed
AllStagesCompleted == \A i \in DOMAIN stages : stages[i].status = "completed"

\* a stage of the run has failed: the executor answered 'failed' on a turn,
\* or the collaborator call of another stage failed
SomeStageFailed ==
    \/ \E i \in DOMAIN stage_results : stage_results[i] = "failed"
    \/ failed_calls \cap {"analysis", "planning", "review", "summary"} # {}

\* C17: the overall status returned is completed only if every required
\* stage completed, partial exactly when the execution loop used up its turn
\* budget without completion or failure, and failed whenever any stage
\* (analysis, planning, an execution turn, review or summary) failed.
C17_OverallStatus ==
    d_pc = "returned" =>
        /\ result_status = "completed" => (AllStagesCompleted /\ ~SomeStageFailed)
        /\ result_status = "partial" <=> (BudgetUsedUp /\ NoFinalAnswer)
        /\ SomeStageFailed => result_status = "failed"

\* C18: when the run returns, every stage recorded in the result has an end
\* time and a terminal status (completed or failed); none is left pending
\* or in_progress.
C18_StagesTerminal ==
    d_pc = "returned" =>
        \A i \in DOMAIN stages :
            /\ stages[i].end_time
            /\ stages[i].status \in {"completed", "failed"}

\* ------------------------------------------------- SubOrchestrator

\* the subtask ids of a main task, in the order of main_task.subtasks
SubIds == 1 .. NumSubtasks

\* a dependency entry that names no subtask of the main task
UnknownSub == 0

SubListing == [i \in SubIds |-> i]

\* the functional groups a manager sorts tasks into, in the order of its dict
\* (the first two categories of DatabaseManager)
Categories == <<"schema_design", "table_creation">>

RECURSIVE SetsUpTo(_, _)
SetsUpTo(S, k) ==
    IF k = 0 THEN {{}}
    ELSE LET smaller == SetsUpTo(S, k - 1)
         IN smaller \cup {A \cup {x} : A \in smaller, x \in S}

\* the dependency lists of the subtasks: at most MaxSubEdges entries in all
SubDependencies ==
    {[t \in SubIds |-> {d \in SubIds \cup {UnknownSub} : <<t, d>> \in E}] :
        E \in SetsUpTo(SubIds \X (SubIds \cup {UnknownSub}), MaxSubEdges)}

\* Subtask and the main task that owns it, with what the manager reads of a
\* subtask: the category its title falls into and whether its complexity is high
MainTasks ==
    {[dependencies |-> d, group |-> g, high |-> h, manager |-> TRUE] :
        d \in SubDependencies,
        g \in [SubIds -> Range(Categories)],
        h \in {{}, {1}}}
    \cup
    {[dependencies |-> d, group |-> [t \in SubIds |-> Categories[1]], high |-> {},
      manager |-> FALSE] : d \in SubDependencies}

\* the entry of start_log of a subtask no agent was started for, and of one whose
\* agent was started when the subtasks of done had completed
NotStarted == [started |-> FALSE, completed |-> {}]
StartedWith(done) == [started |-> TRUE, completed |-> done]

SubtaskResult(t, status) == [subtask_id |-> t, status |-> status]

\* the outcome of one spawned agent: spawn_func / _execute_subtask
AgentOutcomes == {"completed", "failed"}

InitSub ==
    /\ main_task \in MainTasks
    /\ s_pc = "start"
    /\ completed_subtasks = {}
    /\ remaining_subtasks = <<>>
    /\ ready_subtasks = <<>>
    /\ task_groups = <<>>
    /\ manager_results = <<>>
    /\ subtask_results = <<>>
    /\ main_status = "none"
    /\ start_log = [t \in SubIds |-> NotStarted]
    /\ finished = [t \in SubIds |-> "none"]
    /\ IdlePlan
    /\ IdleAgent
    /\ IdleRefine
    /\ IdleDialogue
    /\ IdleValidator
    /\ IdleEnhanced
    /\ IdleAuto
    /\ IdleMonitor

\* SubOrchestrator._should_use_manager_agent
_should_use_manager_agent ==
    IF Len(SubListing) <= 1 THEN FALSE ELSE main_task.manager

\* DatabaseManager._group_tasks_by_function: the non-empty groups, each with its
\* tasks in the order of the subtasks
_group_tasks_by_function(mt) ==
    SelectSeq([i \in 1 .. Len(Categories) |->
                  SelectSeq(SubListing, LAMBDA t : mt.group[t] = Categories[i])],
              LAMBDA tasks : tasks # <<>>)

\* ManagerAgent._determine_agent_count
_determine_agent_count(mt, tasks) ==
    IF Len(tasks) > 2 THEN 2
    ELSE IF \E i \in 1 .. Len(tasks) : tasks[i] \in mt.high THEN 2
    ELSE 1

\* the subtasks whose agent has returned 'completed'
CompletedNow == {t \in SubIds : finished[t] = "completed"}

\* SubOrchestrator._execute_subtasks: the choice between the two paths, with the
\* set-up of the chosen one
StartSubtasks ==
    /\ s_pc = "start"
    /\ IF _should_use_manager_agent
       THEN /\ task_groups' = _group_tasks_by_function(main_task)
            /\ s_pc' = "manager"
            /\ UNCHANGED remaining_subtasks
       ELSE /\ remaining_subtasks' = SubListing
            /\ s_pc' = "direct"
            /\ UNCHANGED task_groups
    /\ UNCHANGED <<main_task, completed_subtasks, ready_subtasks, manager_results,
                   subtask_results, main_status, start_log, finished>>
    /\ UNCHANGED notSubVars

\* a test that looks at the dependencies on subtasks of the main task only
deps_met_among_known(t) ==
    (main_task.dependencies[t] \cap SubIds) \subseteq completed_subtasks

\* the deps_met test of _execute_direct
deps_met(t) == main_task.dependencies[t] \subseteq completed_subtasks

\* SubOrchestrator._execute_direct: one test of the while loop, the search for
\* ready subtasks and the skipping of the remaining ones when there is none
DirectRound ==
    /\ s_pc = "direct"
    /\ ready_subtasks = <<>>
    /\ IF remaining_subtasks = <<>>
       THEN /\ s_pc' = "summary"
            /\ UNCHANGED <<ready_subtasks, subtask_results, remaining_subtasks>>
       ELSE LET ready == SelectSeq(remaining_subtasks, deps_met)
            IN IF ready = <<>>
               THEN /\ subtask_results' = subtask_results \o
                           [i \in 1 .. Len(remaining_subtasks) |->
                               SubtaskResult(remaining_subtasks[i], "skipped")]
                    /\ s_pc' = "summary"
                    /\ UNCHANGED <<ready_subtasks, remaining_subtasks>>
               ELSE /\ ready_subtasks' = ready
                    /\ UNCHANGED <<s_pc, subtask_results, remaining_subtasks>>
    /\ UNCHANGED <<main_task, completed_subtasks, task_groups, manager_results,
                   main_status, start_log, finished>>
    /\ UNCHANGED notSubVars

\* SubOrchestrator._execute_direct: one pass of "for subtask in ready_subtasks",
\* with the _execute_subtask it awaits
DirectExecute ==
    /\ s_pc = "direct"
    /\ ready_subtasks # <<>>
    /\ LET t == Head(ready_subtasks)
       IN \E status \in AgentOutcomes :
            /\ start_log' = [start_log EXCEPT ![t] = StartedWith(CompletedNow)]
            /\ finished' = [finished EXCEPT ![t] = status]
            /\ subtask_results' = Append(subtask_results, SubtaskResult(t, status))
            /\ completed_subtasks' = IF status = "completed"
                                     THEN completed_subtasks \cup {t}
                                     ELSE completed_subtasks
            /\ remaining_subtasks' = SelectSeq(remaining_subtasks, LAMBDA u : u # t)
            /\ ready_subtasks' = Tail(ready_subtasks)
    /\ UNCHANGED <<main_task, s_pc, task_groups, manager_results, main_status>>
    /\ UNCHANGED notSubVars

\* ManagerAgent._execute_task_group, one pass of the loop of manage_tasks: one
\* agent gets all the tasks of the group, or two agents get a half each and run
\* together; what an agent returns is the result of every task it was given
_execute_task_group ==
    /\ s_pc = "manager"
    /\ task_groups # <<>>
    /\ LET tasks == Head(task_groups)
           split == Len(tasks) \div 2
           agent1_tasks == SubSeq(tasks, 1, split)
           agent2_tasks == SubSeq(tasks, split + 1, Len(tasks))
       IN /\ start_log' = [t \in SubIds |->
                              IF InSeq(t, tasks) THEN StartedWith(CompletedNow)
                              ELSE start_log[t]]
          /\ IF _determine_agent_count(main_task, tasks) = 1
             THEN \E result \in AgentOutcomes :
                    /\ manager_results' = Append(manager_results, result)
                    /\ finished' = [t \in SubIds |->
                                       IF InSeq(t, tasks) THEN result ELSE finished[t]]
             ELSE \E result1 \in AgentOutcomes, result2 \in AgentOutcomes :
                    /\ manager_results' = manager_results \o <<result1, result2>>
                    /\ finished' = [t \in SubIds |->
                                       IF InSeq(t, agent1_tasks) THEN result1
                                       ELSE IF InSeq(t, agent2_tasks) THEN result2
                                       ELSE finished[t]]
    /\ task_groups' = Tail(task_groups)
    /\ UNCHANGED <<main_task, s_pc, completed_subtasks, remaining_subtasks,
                   ready_subtasks, subtask_results, main_status>>
    /\ UNCHANGED notSubVars

Min(a, b) == IF a < b THEN a ELSE b

\* SubOrchestrator._execute_with_manager, after manage_tasks has returned: the
\* conversion of the manager's results into one SubtaskResult per subtask
ConvertResults ==
    /\ s_pc = "manager"
    /\ task_groups = <<>>
    /\ subtask_results' =
           [i \in 1 .. Len(SubListing) |->
               SubtaskResult(SubListing[i],
                             manager_results[Min(i, Len(manager_results))])]
    /\ s_pc' = "summary"
    /\ UNCHANGED <<main_task, completed_subtasks, remaining_subtasks, ready_subtasks,
                   task_groups, manager_results, main_status, start_log, finished>>
    /\ UNCHANGED notSubVars

\* SubOrchestrator.execute, step 4: the status of the main task
Summarize ==
    /\ s_pc = "summary"
    /\ LET completed_count == Cardinality({i \in DOMAIN subtask_results :
                                             subtask_results[i].status = "completed"})
       IN main_status' = IF completed_count = Len(subtask_results) THEN "completed"
                         ELSE IF completed_count > 0 THEN "partial"
                         ELSE "failed"
    /\ s_pc' = "done"
    /\ UNCHANGED <<main_task, completed_subtasks, remaining_subtasks, ready_subtasks,
                   task_groups, manager_results, subtask_results, start_log, finished>>
    /\ UNCHANGED notSubVars

NextSub ==
    \/ StartSubtasks
    \/ DirectRound
    \/ DirectExecute
    \/ _execute_task_group
    \/ ConvertResults
    \/ Summarize

SpecSub == InitSub /\ [][NextSub]_vars

\* SubOrchestrator.execute is one coroutine that the event loop keeps running:
\* every await of _execute_subtask returns (an exception of the agent is caught
\* and answered as a failed result)
SpecSubFair == SpecSub /\ WF_vars(NextSub)

\* ------------------------------------------------- claims: SubOrchestrator

\* the subtasks a subtask depends on
SubDeps(t) == main_task.dependencies[t]

\* C19: a subtask's agent is started only when every subtask it depends on has
\* completed, on the manager path as on the direct path; a subtask with a failed
\* or unfinished dependency is never started.
C19_SubtaskStartsAfterDependencies ==
    \A t \in DOMAIN start_log :
        start_log[t].started => SubDeps(t) \subseteq start_log[t].completed

\* the direct path alone keeps the order
DirectPathKeepsOrder ==
    (s_pc # "idle" /\ ~_should_use_manager_agent) => C19_SubtaskStartsAfterDependencies

\* ------------------------------------------------- EnhancedOrchestrator

\* the task ids of the main tasks, in the order of decomposition.main_tasks
MainIds == 1 .. NumMainTasks

MainListing == [i \in MainIds |-> i]

\* the dependency lists of the main tasks: at most MaxMainEdges entries in all
MainDependencies ==
    {[t \in MainIds |-> {d \in MainIds : <<t, d>> \in E}] :
        E \in SetsUpTo(MainIds \X MainIds, MaxMainEdges)}

\* DecomposedTask, with what execution reads of its main tasks
Decompositions ==
    {[dependencies |-> d, priority |-> p, execution_strategy |-> s] :
        d \in MainDependencies,
        p \in [MainIds -> 1 .. MaxPriority],
        s \in {"sequential", "parallel"}}

\* what _execute_main_task gives: the status of the MainTaskResult of the
\* sub-orchestrator, or an exception
MainOutcomes == {"completed", "partial", "failed", "raised"}

MainTaskResult(t, status) == [main_task_id |-> t, status |-> status]

InitEnhanced ==
    /\ decomposition \in Decompositions
    /\ e_pc = "start"
    /\ sorted_tasks = <<>>
    /\ running = {}
    /\ gathered = [t \in MainIds |-> "none"]
    /\ main_task_results = <<>>
    /\ overall_status = "none"
    /\ main_start_log = [t \in MainIds |-> NotStarted]
    /\ IdlePlan
    /\ IdleAgent
    /\ IdleRefine
    /\ IdleDialogue
    /\ IdleValidator
    /\ IdleSub
    /\ IdleAuto
    /\ IdleMonitor

\* the sort key of _execute_main_tasks_sequential: (priority, task_id)
KeyBefore(d, t, u) ==
    \/ d.priority[t] < d.priority[u]
    \/ d.priority[t] = d.priority[u] /\ t <= u

\* sorted(self.decomposition.main_tasks, key=lambda t: (t.priority, t.task_id))
RECURSIVE SortedByPriority(_, _)
SortedByPriority(d, S) ==
    IF S = {} THEN <<>>
    ELSE LET first == CHOOSE t \in S : \A u \in S : KeyBefore(d, t, u)
         IN <<first>> \o SortedByPriority(d, S \ {first})

\* the main tasks whose sub-orchestrator has returned status 'completed'
CompletedMain ==
    {t \in MainIds : gathered[t] = "completed"}

\* EnhancedOrchestrator._execute_main_tasks: the choice of the strategy; under
\* the parallel one asyncio.gather starts the coroutines of all main tasks
_execute_main_tasks ==
    /\ e_pc = "start"
    /\ IF decomposition.execution_strategy = "parallel"
       THEN /\ running' = MainIds
            /\ main_start_log' = [t \in MainIds |-> StartedWith(CompletedMain)]
            /\ e_pc' = "parallel"
            /\ UNCHANGED sorted_tasks
       ELSE /\ sorted_tasks' = SortedByPriority(decomposition, MainIds)
            /\ e_pc' = "sequential"
            /\ UNCHANGED <<running, main_start_log>>
    /\ UNCHANGED <<decomposition, gathered, main_task_results, overall_status>>
    /\ UNCHANGED notEnhancedVars

\* EnhancedOrchestrator._execute_main_tasks_sequential: one pass of the loop; an
\* exception of _execute_main_task ends execute with overall_status 'failed'
_execute_main_tasks_sequential ==
    /\ e_pc = "sequential"
    /\ sorted_tasks # <<>>
    /\ LET t == Head(sorted_tasks)
       IN \E outcome \in MainOutcomes :
            /\ main_start_log' = [main_start_log EXCEPT ![t] = StartedWith(CompletedMain)]
            /\ gathered' = [gathered EXCEPT ![t] = outcome]
            /\ IF outcome = "raised"
               THEN /\ overall_status' = "failed"
                    /\ e_pc' = "done"
                    /\ UNCHANGED main_task_results
               ELSE /\ main_task_results' =
                           Append(main_task_results, MainTaskResult(t, outcome))
                    /\ e_pc' = IF Tail(sorted_tasks) = <<>> THEN "summary"
                               ELSE "sequential"
                    /\ UNCHANGED overall_status
    /\ sorted_tasks' = Tail(sorted_tasks)
    /\ UNCHANGED <<decomposition, running>>
    /\ UNCHANGED notEnhancedVars

\* one of the coroutines of asyncio.gather returns or raises
MainTaskReturns ==
    /\ e_pc = "parallel"
    /\ \E t \in running, outcome \in MainOutcomes :
         /\ gathered' = [gathered EXCEPT ![t] = outcome]
         /\ running' = running \ {t}
    /\ UNCHANGED <<decomposition, e_pc, sorted_tasks, main_task_results,
                   overall_status, main_start_log>>
    /\ UNCHANGED notEnhancedVars

\* EnhancedOrchestrator._execute_main_tasks_parallel, after asyncio.gather: the
\* results that are no exceptions are kept, in the order of the main tasks
_execute_main_tasks_parallel ==
    /\ e_pc = "parallel"
    /\ running = {}
    /\ LET kept == SelectSeq(MainListing, LAMBDA t : gathered[t] # "raised")
       IN main_task_results' =
              [i \in 1 .. Len(kept) |-> MainTaskResult(kept[i], gathered[kept[i]])]
    /\ e_pc' = "summary"
    /\ UNCHANGED <<decomposition, sorted_tasks, running, gathered, overall_status,
                   main_start_log>>
    /\ UNCHANGED notEnhancedVars

\* EnhancedOrchestrator.execute, phase 4: the overall status
GenerateResult ==
    /\ e_pc = "summary"
    /\ LET completed_main == Cardinality({i \in DOMAIN main_task_results :
                                            main_task_results[i].status = "completed"})
           total_tasks == Len(main_task_results)
       IN overall_status' = IF completed_main = total_tasks THEN "completed"
                            ELSE IF completed_main > 0 THEN "partial"
                            ELSE "failed"
    /\ e_pc' = "done"
    /\ UNCHANGED <<decomposition, sorted_tasks, running, gathered, main_task_results,
                   main_start_log>>
    /\ UNCHANGED notEnhancedVars

NextEnhanced ==
    \/ _execute_main_tasks
    \/ _execute_main_tasks_sequential
    \/ MainTaskReturns
    \/ _execute_main_tasks_parallel
    \/ GenerateResult

SpecEnhanced == InitEnhanced /\ [][NextEnhanced]_vars

\* ------------------------------------------------- claims: EnhancedOrchestrator

\* the main tasks a main task depends on
MainDeps(t) == decomposition.dependencies[t]

\* C20: a main task is started only when every main task it depends on has
\* reached completed, under the sequential and under the parallel strategy.
C20_MainTaskStartsAfterDependencies ==
    \A t \in DOMAIN main_start_log :
        main_start_log[t].started => MainDeps(t) \subseteq main_start_log[t].completed

\* the three-task case of the claim: B and C depend on A, parallel strategy
ParallelFanOut ==
    /\ e_pc # "idle"
    /\ decomposition.execution_strategy = "parallel"
    /\ decomposition.dependencies = [t \in MainIds |-> IF t = 1 THEN {} ELSE {1}]

\* in that case B and C are started only after A has completed
FanOutStartsAfterRoot ==
    ParallelFanOut =>
        \A t \in MainIds \ {1} :
            main_start_log[t].started => 1 \in main_start_log[t].completed

\* ------------------------------------------------- claims: plans, continued

\* the tasks whose executor call failed or raised
FailedTasks == {t \in Ids : "failed" \in StatusesOf(t)}

\* every dependency of the task ended with status success
DependenciesSucceeded(t) ==
    LET deps == Get(plan.dependencies, t, <<>>)
    IN \A i \in DOMAIN deps : StatusesOf(deps[i]) = {"success"}

\* C21: a failed task that is not critical is recorded as failed and does not
\* stop execute_plan: when execute_plan returns and no critical task has failed,
\* every task that was passed to the executor has the one result success or
\* failed, the failed results are counted in tasks_failed, and every task whose
\* dependencies all succeeded has been executed.
C21_FailureDoesNotStopOthers ==
    (PlanExecuted /\ \A t \in FailedTasks : plan.priority[t] # "critical") =>
        /\ \A t \in Range(executed) : StatusesOf(t) \in {{"success"}, {"failed"}}
        /\ Cardinality(FailedTasks) = tasks_failed
        /\ \A t \in Ids : DependenciesSucceeded(t) => InSeq(t, executed)

\* no dependency list of the plan names a task twice
NoDuplicateDeps ==
    \A k \in DOMAIN plan.dependencies :
        \A i, j \in DOMAIN plan.dependencies[k] :
            plan.dependencies[k][i] = plan.dependencies[k][j] => i = j

\* the same for the plans whose dependency lists name no task twice
FailureIsolatedWithoutDuplicates ==
    NoDuplicateDeps => C21_FailureDoesNotStopOthers

\* ------------------------------------------------- claims: agents, continued

\* the parent has left the asyncio.gather of its children
PastGather(a) ==
    /\ agents[a].mode = "sub_agents"
    /\ agents[a].pc \in {"synthesizing", "returned"}

\* the child has run to a terminal status of its own
RanToEnd(c) ==
    /\ agents[c].pc = "returned"
    /\ agents[c].status \in {"completed", "failed"}
    /\ agents[c].result # "none"

\* C22: when a child fails or raises, every sibling still runs to its own
\* terminal status: a parent that has left the join with a failed child has no
\* child that was cancelled or left unexecuted.
C22_FailureSparesSiblings ==
    \A a \in AgentIds :
        (PastGather(a) /\ \E c \in ChildrenOf(a) : agents[c].result = "failure") =>
            \A c \in ChildrenOf(a) : RanToEnd(c)

\* C22 witness: a parent has left the join with two children, one that failed
\* with an exception caught by execute() and one that succeeded
C22_Witness ==
    \E a \in AgentIds :
        /\ PastGather(a)
        /\ \E c, d \in ChildrenOf(a) :
              /\ agents[c].status = "failed"
              /\ agents[c].result = "failure"
              /\ agents[d].result = "success"
              /\ RanToEnd(d)

\* C23: whenever a parent spawned children, the synthesis collaborator is called
\* exactly once, after all children have finished, with the list of all child
\* results, also when only some of the children succeeded.
C23_SynthesisOnceWithAllResults ==
    \A a \in AgentIds :
        /\ agents[a].synth_calls <= 1
        /\ (agents[a].children # <<>> /\ agents[a].pc = "returned") =>
              agents[a].synth_calls = 1
        /\ agents[a].synth_calls > 0 =>
              /\ \A c \in ChildrenOf(a) : RanToEnd(c)
              /\ agents[a].synthesized = agents[a].children

\* the part of C23 the code keeps for a parent whose children were executed:
\* one call, after the join, with the results of the children that succeeded
SynthesisOnceAfterJoin ==
    \A a \in AgentIds :
        /\ agents[a].synth_calls <= 1
        /\ (PastGather(a) /\ agents[a].status # "failed") => agents[a].synth_calls = 1
        /\ agents[a].synth_calls > 0 =>
              /\ \A c \in ChildrenOf(a) : RanToEnd(c)
              /\ Range(agents[a].synthesized) =
                    {c \in ChildrenOf(a) : agents[c].result # "failure"}

\* ------------------------------------------------- claims: the report of execute_plan

\* the positions of the results of a task in the report
ResultsOf(t) == {i \in DOMAIN task_results : task_results[i].task_id = t}

\* the number of results with the status
CountStatus(status) ==
    Cardinality({i \in DOMAIN task_results : task_results[i].status = status})

\* C24: the ExecutionResult returned by execute_plan has exactly one task result
\* for every task of the plan, and the numbers of succeeded, failed and skipped
\* results add up to the number of tasks of the plan.
C24_OneResultPerTask ==
    PlanExecuted =>
        /\ \A t \in Range(plan.tasks) : Cardinality(ResultsOf(t)) = 1
        /\ \A i \in DOMAIN task_results : task_results[i].task_id \in Range(plan.tasks)
        /\ tasks_succeeded = CountStatus("success")
        /\ tasks_failed = CountStatus("failed")
        /\ tasks_succeeded + tasks_failed + CountStatus("skipped") = Len(plan.tasks)

\* the same for the runs without a failed critical task on plans whose
\* dependency lists name no task twice
OneResultPerTaskWithoutBreak ==
    (NoDuplicateDeps /\ \A t \in FailedTasks : plan.priority[t] # "critical") =>
        C24_OneResultPerTask

\* C25: an agent's status becomes completed, and its result is reported as
\* success, only when its executor call returned an explicit success signal; a
\* run whose executor call failed, reported failure or gave no recognisable
\* success signal is never marked completed or success.
C25_CompletedOnlyOnSuccessSignal ==
    \A a \in AgentIds :
        (agents[a].mode = "direct" /\ agents[a].pc = "returned") =>
            /\ agents[a].status = "completed" => agents[a].executor_answer = "json_success"
            /\ agents[a].result = "success" => agents[a].executor_answer = "json_success"

\* ------------------------------------------------- claims: dialogue, collaborators

\* the collaborator calls C26 is about that have failed in this run
FailedCollaborators == failed_calls \cap {"planning", "information", "review"}

\* the stage types that contain the calls
ContainingStage(call) ==
    IF call = "information" THEN "execution" ELSE call

\* C26: if a planning, information-provider or review call itself fails, the
\* failure does not escape as an exception, and the run returns with the
\* containing stage failed and with overall status failed.
C26_CollaboratorFailureIsStatus ==
    FailedCollaborators # {} =>
        /\ d_pc # "raised"
        /\ d_pc = "returned" =>
              /\ result_status = "failed"
              /\ \A call \in FailedCollaborators :
                    \E i \in DOMAIN stages :
                        /\ stages[i].stage_type = ContainingStage(call)
                        /\ stages[i].status = "failed"

\* ------------------------------------------------- claims: concurrency

\* the concurrency limits a configuration could ask for. Neither
\* EnhancedOrchestrator (whose config is read for max_agent_depth and
\* timeout_minutes only) nor HierarchicalAgent reads such a limit, so every run
\* is a run under each of them.
ConcurrencyLimits == 1 .. NumMainTasks

\* the main tasks in flight: started by asyncio.gather and not yet returned
InFlightMainTasks == Cardinality(running)

\* C27: under the parallel strategy the number of main tasks in flight at the
\* same time never exceeds the configured concurrency limit.
C27_BoundedConcurrency ==
    \A limit \in ConcurrencyLimits : InFlightMainTasks <= limit

\* ------------------------------------------------- claims: the order of execution

\* the position of a task id in the ascending order of the ids
IdRank(t) == CHOOSE i \in DOMAIN AllTaskNames : AllTaskNames[i] = t

\* the tasks at positions i < j of the order were ready at the same time: the
\* dependencies of the later one were all placed before the earlier one
ReadyTogether(order, i, j) ==
    /\ i < j
    /\ PlacedAfterDeps(order, i)
    /\ LET deps == Get(plan.dependencies, order[j], <<>>)
       IN \A k \in DOMAIN deps : \E m \in 1..(i - 1) : order[m] = deps[k]

\* the order _topological_sort produces for the plan with its tasks listed as in
\* listing
OrderFor(listing) ==
    _topological_sort(listing, _build_dependency_graph([plan EXCEPT !.tasks = listing]))

\* C28: among tasks that are ready at the same time the order is by priority and
\* then by task id ascending (checked for tasks of equal priority), so the order
\* produced for a plan does not depend on the order in which its tasks are listed.
C28_OrderIndependentOfListing ==
    g_pc \in {"loop", "finalize"} =>
        /\ \A i, j \in DOMAIN task_order :
              (/\ ReadyTogether(task_order, i, j)
               /\ plan.priority[task_order[i]] = plan.priority[task_order[j]])
                 => IdRank(task_order[i]) < IdRank(task_order[j])
        /\ \A listing \in Listings : OrderFor(listing) = task_order

\* ------------------------------------------------- claims: the order of the stages

\* the place of a stage type in the order of the machine
StageRank(stage_type) ==
    CASE stage_type = "analysis" -> 1
      [] stage_type = "planning" -> 2
      [] stage_type = "execution" -> 3
      [] stage_type = "review" -> 4
      [] stage_type = "summary" -> 5

StagesOfType(stage_type) == {i \in DOMAIN stages : stages[i].stage_type = stage_type}

\* C29: the stages are entered in the order analysis, planning, execution turns,
\* review, summary, none but the execution stage more than once and none before
\* the one before it; the review stage runs exactly when execution produced
\* artifacts, at most once, and no execution turn follows it.
C29_StageOrder ==
    /\ \A i, j \in DOMAIN stages :
          i < j =>
             /\ StageRank(stages[i].stage_type) <= StageRank(stages[j].stage_type)
             /\ stages[i].stage_type = stages[j].stage_type =>
                   stages[i].stage_type = "execution"
    /\ Len(stages) >= 1 => stages[1].stage_type = "analysis"
    /\ Len(stages) >= 2 => stages[2].stage_type = "planning"
    /\ Cardinality(StagesOfType("review")) <= 1
    /\ \A i \in StagesOfType("review") : artifacts > 0 /\ d_pc \in {"summary", "returned"}
    /\ d_pc = "returned" =>
          /\ stages[Len(stages)].stage_type = "summary"
          /\ artifacts > 0 => StagesOfType("review") # {}

\* C29 witness: a returned run of two execution turns with a review
C29_Witness ==
    /\ d_pc = "returned"
    /\ Len(stages) = 6
    /\ stages[3].stage_type = "execution"
    /\ stages[4].stage_type = "execution"
    /\ stages[5].stage_type = "review"
    /\ stages[6].stage_type = "summary"

\* ------------------------------------------------- claims: information requests

\* the executor calls whose answer asked for more information
AskingTurns == {k \in DOMAIN stage_requests : stage_requests[k] # "none"}

\* the type of the request the answer of turn k named, "clarification" if it
\* named none
AskedType(k) ==
    IF stage_requests[k] \in {"web_search", "research"} THEN stage_requests[k]
    ELSE "clarification"

\* the information provider has answered the request of turn k
Answered(k) == ~(k = Len(stage_requests) /\ "information" \in failed_calls)

\* C30: when an execution turn asks for more information, the information
\* provider is called once, with the request of the type the turn named; its
\* answer is appended to the running context; every later executor turn gets a
\* context that holds the answer; and the request by itself does not end the
\* loop: after an answered request on a turn that neither completed nor failed,
\* with turns left, the next turn is executed.
C30_InformationRequestServed ==
    /\ provider_calls = Cardinality(AskingTurns)
    /\ Len(info_requests) = provider_calls
    /\ \A k \in AskingTurns :
          /\ Cardinality({i \in DOMAIN info_requests : info_requests[i].turn = k}) = 1
          /\ \A i \in DOMAIN info_requests :
                info_requests[i].turn = k => info_requests[i].request_type = AskedType(k)
          /\ Answered(k) =>
                /\ Cardinality({i \in DOMAIN additional_info :
                                   additional_info[i].turn = k}) = 1
                /\ \A m \in DOMAIN executor_contexts :
                      m > k => \E i \in DOMAIN executor_contexts[m] :
                                   executor_contexts[m][i] =
                                       [turn |-> k, request_type |-> AskedType(k)]
                /\ (/\ k = Len(stage_results)
                    /\ stage_results[k] = "in_progress"
                    /\ k < max_dialogue_turns)
                      => d_pc = "execute"

\* C30 witness: the first two turns asked for information and a third turn was
\* executed with both answers in its context
C30_Witness ==
    /\ Len(executor_contexts) = 3
    /\ {1, 2} \subseteq AskingTurns
    /\ Len(executor_contexts[3]) = 2

\* ------------------------------------------------- claims: the order, continued

\* the positions of a task in the order of execution
PositionsOf(t) == {i \in DOMAIN task_order : task_order[i] = t}

\* execute_plan has computed its order of execution
OrderComputed == g_pc \in {"loop", "finalize"} \/ execution_status # "none"

\* C33: for every plan accepted by validate_plan and check_circular_dependencies,
\* whatever the shape of its dependency lists, _topological_sort returns each
\* task id of the plan exactly once.
C33_SortReturnsEveryTaskOnce ==
    OrderComputed =>
        /\ \A i \in DOMAIN plan.tasks : Cardinality(PositionsOf(plan.tasks[i])) = 1
        /\ Range(task_order) \subseteq Range(plan.tasks)

\* the same for the plans whose dependency lists name no task twice
SortCompleteWithoutDuplicates ==
    NoDuplicateDeps => C33_SortReturnsEveryTaskOnce

\* ------------------------------------------------- claims: the overall status

\* the statuses of the recorded task results
RecordedStatuses == {task_results[i].status : i \in DOMAIN task_results}

\* C36: whenever execute_plan returns overall status completed, every recorded
\* task result has status success: a run that contains a failed or a skipped
\* task result is never reported as completed.
C36_CompletedMeansAllSuccess ==
    execution_status = "completed" => RecordedStatuses \subseteq {"success"}

\* a run of a plan with dependencies that recorded a result for every task and
\* is reported as completed
C36_Witness ==
    /\ execution_status = "completed"
    /\ Len(task_results) = NumTasks
    /\ \E t \in Ids : Get(plan.dependencies, t, <<>>) # <<>>

\* ------------------------------------------------- claims: refinement, the agent's own bound

\* the number of calls of the implementer's refine operation
RefineCalls == Cardinality({i \in DOMAIN calls : calls[i] = "refine"})

\* C34: whatever max_iterations the workflow is given, one run performs at most
\* 3 reviewer calls, because the implementer's refine operation returns a
\* failure from its third call on without contacting the implementer: after the
\* third call of refine the run has returned a refinement failure, no artifact
\* was added by that call, and at most three artifacts exist.
C34_ReviewsBoundedByAgent ==
    /\ ReviewerCalls <= CodexMaxIterations
    /\ RefineCalls = codex_iterations
    /\ Len(codex_results) <= CodexMaxIterations
    /\ codex_iterations >= CodexMaxIterations =>
          /\ r_pc = "returned"
          /\ ~r_result.success
          /\ r_result.error = "Codex refinement failed"
          /\ Len(codex_results) = CodexMaxIterations
          /\ codex_iterations = CodexMaxIterations

\* a run with a larger max_iterations that was ended by the third call of
\* refine after three reviews
C34_Witness ==
    /\ max_iterations > CodexMaxIterations
    /\ r_pc = "returned"
    /\ codex_iterations = CodexMaxIterations
    /\ ReviewerCalls = CodexMaxIterations
    /\ ~collaborator_failed

\* ------------------------------------------------- claims: refinement, the order of the calls

\* the collaborator call expected at a position of a run
ExpectedCall(i) ==
    IF i = 1 THEN "implement" ELSE IF i % 2 = 0 THEN "review" ELSE "refine"

\* the review that precedes the call at position i (a refine call)
ReviewBefore(i) == (i - 1) \div 2

\* C35: in a refinement run the collaborator calls strictly alternate implement,
\* review, refine, review, ...: each reviewer call receives the artifact of the
\* most recent successful implementer call, no artifact is reviewed twice,
\* refine is called only directly after a non-approving review, and on approval
\* the returned final artifact is the one the reviewer approved.
C35_CallsAlternate ==
    /\ \A i \in DOMAIN calls : calls[i] = ExpectedCall(i)
    /\ \A i \in DOMAIN claude_reviews :
          /\ i <= Len(codex_results)
          /\ claude_reviews[i].artifact = codex_results[i]
          /\ \A j \in DOMAIN claude_reviews :
                claude_reviews[j].artifact = claude_reviews[i].artifact => i = j
    /\ r_pc = "review" =>
          /\ Len(codex_results) = Len(claude_reviews) + 1
          /\ codex_result = codex_results[Len(codex_results)]
    /\ \A i \in DOMAIN calls :
          calls[i] = "refine" =>
              /\ ReviewBefore(i) \in DOMAIN claude_reviews
              /\ ~claude_reviews[ReviewBefore(i)].approved
    /\ \A i \in DOMAIN claude_reviews :
          claude_reviews[i].approved =>
              /\ i = Len(claude_reviews)
              /\ r_pc = "returned"
              /\ r_result.success
              /\ r_result.final = claude_reviews[i].artifact

\* a run in which the second artifact was approved after one refinement
C35_Witness ==
    /\ r_pc = "returned"
    /\ calls = <<"implement", "review", "refine", "review">>
    /\ r_result.success
    /\ r_result.final = 2

\* ------------------------------------------------- claims: the direct path

\* the positions of the results of a subtask
SubResultsOf(t) == {i \in DOMAIN subtask_results : subtask_results[i].subtask_id = t}

\* the statuses recorded for a subtask
SubStatusesOf(t) == {subtask_results[i].status : i \in SubResultsOf(t)}

\* _execute_direct is running, and it has returned
DirectRunning == s_pc = "direct"
DirectReturned == s_pc \in {"summary", "done"} /\ ~_should_use_manager_agent

\* a dependency of the subtask has not completed: it is unknown, it failed, or
\* it was itself never ready
NeverReady(t) == ~(SubDeps(t) \subseteq CompletedNow)

\* what _execute_direct has appended when it returns
DirectResultsComplete ==
    DirectReturned =>
        /\ Len(subtask_results) = NumSubtasks
        /\ \A t \in SubIds :
              /\ Cardinality(SubResultsOf(t)) = 1
              /\ SubStatusesOf(t) = {"skipped"} <=> NeverReady(t)
              /\ SubStatusesOf(t) # {"skipped"} =>
                    /\ start_log[t].started
                    /\ SubStatusesOf(t) = {finished[t]}

\* C40: _execute_direct terminates for every dependency structure among the
\* subtasks (including cycles and references to unknown subtasks) and appends
\* exactly one result per subtask, marking as skipped exactly those subtasks
\* that can never become ready.
C40_DirectTerminatesWithOneResultEach ==
    /\ []DirectResultsComplete
    /\ DirectRunning ~> DirectReturned

\* a returned direct run over a dependency cycle of two subtasks, both skipped,
\* next to a subtask that completed
C40_Witness ==
    /\ DirectReturned
    /\ \E t, u \in SubIds :
          /\ t # u
          /\ u \in SubDeps(t)
          /\ t \in SubDeps(u)
          /\ SubStatusesOf(t) = {"skipped"}
          /\ SubStatusesOf(u) = {"skipped"}
    /\ \E t \in SubIds : SubStatusesOf(t) = {"completed"}

\* ------------------------------------------------- AutoOrchestrator
\* AutoOrchestrator.execute_task: the dialogue machine run under
\* asyncio.wait_for, with the agent hierarchy kept by agent_activity_callback.

\* AgentNode: what the callback reads and writes of it
AgentNode(agent_type, status) == [agent_type |-> agent_type, status |-> status]

\* the root agent of the hierarchy
RootAgent == 1

\* the role whose spawn execute_goal_iterative logs when it enters a stage
SpawnedRole(pc, turn) ==
    IF pc = "analysis" THEN "PP"
    ELSE IF pc = "execute" /\ turn = 1 THEN "IM"
    ELSE IF pc = "review" THEN "AR"
    ELSE IF pc = "summary" THEN "RD"
    ELSE "none"

\* the first agent of the role whose status is active, in the order of the
\* dict; 0 if there is none
FirstActive(h, role) ==
    LET S == {i \in DOMAIN h : h[i].agent_type = role /\ h[i].status = "active"}
    IN IF S = {} THEN 0 ELSE CHOOSE i \in S : \A j \in S : i <= j

\* agent_activity_callback(role, action, message): spawn adds an active node,
\* complete and error end the first active node of the role, every other
\* action leaves the hierarchy alone
agent_activity_callback(h, role, action) ==
    LET i == FirstActive(h, role)
    IN IF role = "none" THEN h
       ELSE IF action = "spawn" THEN Append(h, AgentNode(role, "active"))
       ELSE IF action = "complete" /\ i # 0 THEN [h EXCEPT ![i].status = "completed"]
       ELSE IF action = "error" /\ i # 0 THEN [h EXCEPT ![i].status = "failed"]
       ELSE h

\* the stages in which execute_goal_iterative is suspended on the subprocess of
\* ClaudeCLIExecutor, where the cancellation of wait_for can reach it
ExecutorStages == {"analysis", "execute", "review", "summary"}

\* the stage_type of the DialogueStage of a position of the run
StageTypeAt(pc) == IF pc = "execute" THEN "execution" ELSE pc

InitAuto ==
    /\ EnterDialogue
    /\ a_pc = "created"
    /\ hierarchy = <<AgentNode("orchestrator", "pending")>>
    /\ stage_open = "none"
    /\ auto_result = NoAutoResult
    /\ IdlePlan
    /\ IdleAgent
    /\ IdleRefine
    /\ IdleValidator
    /\ IdleSub
    /\ IdleEnhanced
    /\ IdleMonitor

\* execute_task up to the call of execute_goal_iterative
StartTask ==
    /\ a_pc = "created"
    /\ hierarchy' = [hierarchy EXCEPT ![RootAgent].status = "active"]
    /\ a_pc' = "running"
    /\ UNCHANGED <<stage_open, auto_result>>
    /\ UNCHANGED dialogueVars
    /\ UNCHANGED notAutoVars

\* execute_goal_iterative enters a stage: the spawn callback, then the await
\* of the collaborator
EnterStage ==
    /\ a_pc = "running"
    /\ d_pc \in {"analysis", "planning", "execute", "review", "summary"}
    /\ stage_open' = d_pc
    /\ hierarchy' = agent_activity_callback(hierarchy,
                                            SpawnedRole(d_pc, current_turn), "spawn")
    /\ a_pc' = "awaiting"
    /\ UNCHANGED auto_result
    /\ UNCHANGED dialogueVars
    /\ UNCHANGED notAutoVars

\* the callback execute_goal_iterative makes when the stage is over
StageCallback(h) ==
    IF stage_open = "analysis" THEN agent_activity_callback(h, "PP", "complete")
    ELSE IF stage_open = "review" THEN agent_activity_callback(h, "AR", "complete")
    ELSE IF stage_open = "summary" THEN agent_activity_callback(h, "RD", "complete")
    ELSE IF stage_open = "execute" /\ d_pc' # "raised"
    THEN LET status == stage_results'[Len(stage_results')]
         IN IF status = "complete" THEN agent_activity_callback(h, "IM", "complete")
            ELSE IF status = "failed" THEN agent_activity_callback(h, "IM", "error")
            ELSE h
    ELSE h

\* execute_task after the await of execute_goal_iterative: the final result on
\* a return, the failure dict on an exception
AfterStage ==
    IF d_pc' = "returned"
    THEN /\ hierarchy' = [StageCallback(hierarchy) EXCEPT ![RootAgent].status = "completed"]
         /\ auto_result' = [status |-> "success", error |-> "none",
                            orchestrator_result |-> result_status']
         /\ a_pc' = "returned"
    ELSE IF d_pc' = "raised"
    THEN /\ hierarchy' = [StageCallback(hierarchy) EXCEPT ![RootAgent].status = "failed"]
         /\ auto_result' = [status |-> "failure", error |-> "exception",
                            orchestrator_result |-> "none"]
         /\ a_pc' = "returned"
    ELSE /\ hierarchy' = StageCallback(hierarchy)
         /\ a_pc' = "running"
         /\ UNCHANGED auto_result

\* the collaborator of the open stage answers and the stage runs to its end
LeaveStage ==
    /\ a_pc = "awaiting"
    /\ \/ AnalysisStageStep
       \/ PlanningStageStep
       \/ ExecutionTurnStep
       \/ ReviewStageStep
       \/ SummaryStageStep
    /\ AfterStage
    /\ stage_open' = "none"
    /\ UNCHANGED notAutoVars

\* a timeout that marks every agent of the hierarchy as failed
TaskTimeoutFailsAll ==
    /\ a_pc = "awaiting"
    /\ stage_open \in ExecutorStages
    /\ stages' = Append(stages, DialogueStage(StageTypeAt(stage_open), "in_progress", FALSE))
    /\ d_pc' = "cancelled"
    /\ hierarchy' = [i \in DOMAIN hierarchy |->
                          AgentNode(hierarchy[i].agent_type, "failed")]
    /\ auto_result' = [status |-> "failure", error |-> "timeout",
                       orchestrator_result |-> "none"]
    /\ a_pc' = "returned"
    /\ UNCHANGED stage_open
    /\ UNCHANGED <<max_dialogue_turns, current_turn, execution_complete, result_status,
                   artifacts, total_dialogue_turns, additional_info, stage_results,
                   provider_calls, failed_calls, executor_contexts, stage_requests,
                   info_requests>>
    /\ UNCHANGED notAutoVars

\* asyncio.wait_for gives up: execute_goal_iterative is cancelled at the await
\* of its executor call, and execute_task returns the timeout failure
TaskTimeout ==
    /\ a_pc = "awaiting"
    /\ stage_open \in ExecutorStages
    /\ stages' = Append(stages, DialogueStage(StageTypeAt(stage_open), "in_progress", FALSE))
    /\ d_pc' = "cancelled"
    /\ hierarchy' = [hierarchy EXCEPT ![RootAgent].status = "failed"]
    /\ auto_result' = [status |-> "failure", error |-> "timeout",
                       orchestrator_result |-> "none"]
    /\ a_pc' = "returned"
    /\ UNCHANGED stage_open
    /\ UNCHANGED <<max_dialogue_turns, current_turn, execution_complete, result_status,
                   artifacts, total_dialogue_turns, additional_info, stage_results,
                   provider_calls, failed_calls, executor_contexts, stage_requests,
                   info_requests>>
    /\ UNCHANGED notAutoVars

NextAuto ==
    \/ StartTask
    \/ EnterStage
    \/ LeaveStage
    \/ TaskTimeout

SpecAuto == InitAuto /\ [][NextAuto]_vars

\* ------------------------------------------------- claims: timeouts

\* the role of the agent that works in a stage of the run
RoleOf(stage) ==
    IF stage = "analysis" THEN "PP"
    ELSE IF stage \in {"execute", "information"} THEN "IM"
    ELSE IF stage = "review" THEN "AR"
    ELSE IF stage = "summary" THEN "RD"
    ELSE "none"

\* the agents of a role
NodesOf(role) == {i \in DOMAIN hierarchy : hierarchy[i].agent_type = role}

\* the task-level timeout has cancelled the run
TimedOut == auto_result.error = "timeout"

\* the stages whose collaborator call failed (execute_prompt answers a call
\* that exceeded its timeout as a failed call) or was cut by the timeout of
\* execute_task
AffectedStages == failed_calls \cup (IF TimedOut THEN {stage_open} ELSE {})

\* C31: every collaborator call runs under a wall-clock timeout; when a call
\* exceeds it, the call is cancelled and the affected node, child or iteration
\* is recorded as failed, while the engine keeps running and still returns a
\* result.
C31_TimeoutRecordedAsFailure ==
    a_pc = "returned" =>
        /\ auto_result.status \in {"success", "failure"}
        /\ \A stage \in AffectedStages :
              \A i \in NodesOf(RoleOf(stage)) : hierarchy[i].status = "failed"

\* what holds: execute_task always returns a dict, and after its own timeout
\* the dict reports a failure and the root agent is failed
TimeoutStillReturnsResult ==
    a_pc = "returned" =>
        /\ auto_result.status \in {"success", "failure"}
        /\ hierarchy[RootAgent].status \in {"completed", "failed"}
        /\ TimedOut => /\ auto_result.status = "failure"
                       /\ hierarchy[RootAgent].status = "failed"

\* ------------------------------------------------- claims: the order of the statuses
\* HierarchicalAgent trees and AutoOrchestrator hierarchies, either of them

InitStatus == InitAgent \/ InitAuto

NextStatus == NextAgent \/ NextAuto

SpecStatus == InitStatus /\ [][NextStatus]_vars

\* the statuses an agent or node ends with
TerminalStatuses == {"completed", "failed", "skipped"}

\* a status and the one that follows it: the same, or one further along
\* pending -> active -> terminal
MovesForward(old, new) ==
    \/ new = old
    \/ old = "pending" /\ new \in {"active"} \cup TerminalStatuses
    \/ old = "active" /\ new \in TerminalStatuses

\* no step takes an agent or node back, or out of a terminal status
StatusStep ==
    /\ \A a \in DOMAIN agents :
          /\ a \in DOMAIN agents'
          /\ MovesForward(agents[a].status, agents'[a].status)
    /\ \A i \in DOMAIN hierarchy :
          /\ i \in DOMAIN hierarchy'
          /\ MovesForward(hierarchy[i].status, hierarchy'[i].status)

\* C32: node and agent status only moves forward along pending -> running
\* (active) -> {completed, failed, skipped}: once a HierarchicalAgent or an
\* AgentNode of the hierarchy has a terminal status, that status never changes
\* again.
C32_StatusMovesForward == [][StatusStep]_vars

\* an execute_task cut by its timeout after an earlier stage had completed: the
\* node of that stage is completed next to the failed root
C32_Witness ==
    /\ a_pc = "returned"
    /\ TimedOut
    /\ hierarchy[RootAgent].status = "failed"
    /\ \E i \in DOMAIN hierarchy : hierarchy[i].status = "completed"

\* ------------------------------------------------- TaskMonitor
\* TaskMonitor: the scan of the pending directories, the orchestrator runs it
\* starts as asyncio tasks, their done callbacks, and the shutdown.

Files == 1 .. NumFiles

\* the stems of the names of the task files: the orchestrator's own pending
\* directory holds all files but the last under different names, the pending
\* directory of a project holds the last under any name
StemLayouts ==
    {s \in [Files -> 1 .. NumStems] : \A f \in Files \ {NumFiles} : s[f] = f}

\* task_file.stem
Stem(f) == task_queue[f].stem

MonitorTaskIds == 1 .. NumTaskIds

OrchestratorModes == {"auto", "hybrid"}

\* no file, and a file that is not valid JSON or lacks a required field
NoFile == [present |-> FALSE, valid |-> FALSE, task_id |-> 0,
           priority |-> "normal", stem |-> 0]
MalformedFile == [NoFile EXCEPT !.present = TRUE]

\* what a slot of the pending directories can hold
TaskFiles ==
    {NoFile, MalformedFile} \cup
    {[present |-> TRUE, valid |-> TRUE, task_id |-> t, priority |-> p, stem |-> 0] :
        t \in MonitorTaskIds, p \in {"critical", "normal"}}

\* the pending directories: every slot's contents under one of the names, at
\* most one of the files critical
PendingDirectories ==
    {[f \in Files |-> IF files[f].present THEN [files[f] EXCEPT !.stem = stems[f]]
                      ELSE files[f]] :
        files \in {q \in [Files -> TaskFiles] :
                     Cardinality({f \in Files : q[f].priority = "critical"}) <= 1},
        stems \in StemLayouts}

\* priority_order.get(data.get("priority", "normal"), 2)
PriorityOrder(priority) ==
    IF priority = "critical" THEN 0
    ELSE IF priority = "high" THEN 1
    ELSE IF priority = "normal" THEN 2
    ELSE IF priority = "low" THEN 3
    ELSE 2

\* sort_key: (priority, created_at), (99, "") for a file that cannot be read;
\* the files were created in the order of their numbers
SortKeyBefore(q, f, g) ==
    LET pf == IF q[f].valid THEN PriorityOrder(q[f].priority) ELSE 99
        pg == IF q[g].valid THEN PriorityOrder(q[g].priority) ELSE 99
    IN pf < pg \/ (pf = pg /\ f < g)

\* _get_all_pending_tasks: the pending files sorted by sort_key
SortPending(q, S) ==
    [i \in 1 .. Cardinality(S) |->
        CHOOSE f \in S : Cardinality({g \in S : SortKeyBefore(q, g, f)}) = i - 1]

\* what an orchestrator run reported: raised (an exception left it), the
\* success flag (HybridWorkflowResult.success, or status "success" of the dict
\* of execute_task) and the status of the dialogue run inside execute_task
NoRunResult == [raised |-> FALSE, success |-> FALSE, orchestrator_result |-> "none"]

\* run_hybrid_mcp_workflow returns a result with success true or false
HybridResults == {[NoRunResult EXCEPT !.success = b] : b \in BOOLEAN}

\* AutoOrchestrator: the constructor raises, or execute_task returns status
\* success with the dialogue's own status inside, or status failure
AutoResults ==
    {[NoRunResult EXCEPT !.raised = TRUE]} \cup
    {[NoRunResult EXCEPT !.success = TRUE, !.orchestrator_result = s] :
        s \in {"completed", "partial", "failed"}} \cup
    {NoRunResult}

RunResults(mode) == IF mode = "hybrid" THEN HybridResults ELSE AutoResults

InitMonitor ==
    /\ task_queue = [f \in Files |-> NoFile]
    /\ max_concurrent_tasks \in 1 .. MaxConcurrent
    /\ m_pc = "created"
    /\ m_running = FALSE
    /\ active_tasks = [t \in MonitorTaskIds |-> 0]
    /\ processing_tasks = {}
    /\ location = [f \in Files |-> {}]
    /\ file_status = [f \in Files |-> "pending"]
    /\ run_state = [f \in Files |-> "none"]
    /\ run_result = [f \in Files |-> NoRunResult]
    /\ callbacks = {}
    /\ start_count = [f \in Files |-> 0]
    /\ IdlePlan
    /\ IdleAgent
    /\ IdleRefine
    /\ IdleDialogue
    /\ IdleValidator
    /\ IdleSub
    /\ IdleEnhanced
    /\ IdleAuto

\* start: the monitor enters its loop; the pending directories hold what was
\* written to them
start ==
    /\ m_pc = "created"
    /\ m_pc' = "loop"
    /\ m_running' = TRUE
    /\ task_queue' \in PendingDirectories
    /\ location' = [f \in Files |-> IF task_queue'[f].present THEN {"pending"} ELSE {}]
    /\ UNCHANGED <<max_concurrent_tasks, active_tasks, processing_tasks, file_status,
                   run_state, run_result, callbacks, start_count>>
    /\ UNCHANGED notMonitorVars

\* the part of the monitor's state a scan changes
ScanState ==
    [processing |-> processing_tasks, active |-> active_tasks, location |-> location,
     status |-> file_status, run |-> run_state, started |-> start_count]

\* _move_to_failed: a malformed file goes from pending to failed
_move_to_failed(st, f) ==
    [st EXCEPT !.location[f] = {"failed"}, !.status[f] = "failed"]

\* _process_task: the file goes to active, its orchestrator run is created and
\* stored under its task_id
_process_task(st, f) ==
    [st EXCEPT !.processing = @ \cup {Stem(f)},
               !.location[f] = {"active"},
               !.status[f] = "active",
               !.run[f] = "running",
               !.active[task_queue[f].task_id] = f,
               !.started[f] = @ + 1]

\* the loop of _scan_and_process_tasks over pending_tasks[:slots_available]
RECURSIVE ProcessPending(_, _)
ProcessPending(queue, st) ==
    IF queue = <<>> THEN st
    ELSE LET f == Head(queue)
         IN IF Stem(f) \in st.processing
            THEN ProcessPending(Tail(queue), st)
            ELSE IF ~task_queue[f].valid
            THEN ProcessPending(Tail(queue), _move_to_failed(st, f))
            ELSE ProcessPending(Tail(queue), _process_task(st, f))

\* len(self.active_tasks)
ActiveCount == Cardinality({t \in MonitorTaskIds : active_tasks[t] # 0})

\* one pass of the loop of start: _scan_and_process_tasks
_scan_and_process_tasks ==
    /\ m_pc = "loop"
    /\ m_running
    /\ ActiveCount < max_concurrent_tasks
    /\ \E pending_tasks \in {SortPending(task_queue,
                                          {f \in Files : "pending" \in location[f]})},
          slots_available \in {max_concurrent_tasks - ActiveCount} :
        \E st \in {ProcessPending(SubSeq(pending_tasks, 1,
                                         Min(slots_available, Len(pending_tasks))),
                                  ScanState)} :
          /\ pending_tasks # <<>>
          /\ processing_tasks' = st.processing
          /\ active_tasks' = st.active
          /\ location' = st.location
          /\ file_status' = st.status
          /\ run_state' = st.run
          /\ start_count' = st.started
    /\ UNCHANGED <<task_queue, max_concurrent_tasks, m_pc, m_running, run_result,
                   callbacks>>
    /\ UNCHANGED notMonitorVars

\* the status _run_orchestrator writes for a result that was returned
RecordedStatus(result) == "completed"

\* _run_orchestrator comes to its end: a returned result is written to the
\* completed directory, an exception to the failed directory; the file leaves
\* active and the done callback is scheduled
_run_orchestrator(f) ==
    /\ run_state[f] = "running"
    /\ \E orchestrator_mode \in OrchestratorModes, result \in AutoResults \cup HybridResults :
        /\ result \in RunResults(orchestrator_mode)
        /\ run_result' = [run_result EXCEPT ![f] = result]
        /\ LET status == IF result.raised THEN "failed" ELSE RecordedStatus(result)
           IN /\ file_status' = [file_status EXCEPT ![f] = status]
              /\ location' = [location EXCEPT ![f] = {status}]
    /\ run_state' = [run_state EXCEPT ![f] = "returned"]
    /\ callbacks' = callbacks \cup {f}
    /\ UNCHANGED <<task_queue, max_concurrent_tasks, m_pc, m_running, active_tasks,
                   processing_tasks, start_count>>
    /\ UNCHANGED notMonitorVars

\* _task_completed, the done callback of the run of a file; the finished
\* asyncio task and the result it holds are released after it
_task_completed(f) ==
    /\ f \in callbacks
    /\ active_tasks' = [active_tasks EXCEPT ![task_queue[f].task_id] = 0]
    /\ processing_tasks' = processing_tasks \ {Stem(f)}
    /\ callbacks' = callbacks \ {f}
    /\ run_state' = [run_state EXCEPT ![f] = IF @ = "returned" THEN "done" ELSE @]
    /\ run_result' = [run_result EXCEPT ![f] = NoRunResult]
    /\ UNCHANGED <<task_queue, max_concurrent_tasks, m_pc, m_running, location,
                   file_status, start_count>>
    /\ UNCHANGED notMonitorVars

\* _handle_shutdown: SIGINT or SIGTERM arrives
_handle_shutdown ==
    /\ m_pc = "loop"
    /\ m_running
    /\ m_running' = FALSE
    /\ UNCHANGED <<task_queue, max_concurrent_tasks, m_pc, active_tasks,
                   processing_tasks, location, file_status, run_state, run_result,
                   callbacks, start_count>>
    /\ UNCHANGED notMonitorVars

\* the runs that are cancelled when the event loop is closed: CancelledError is
\* no Exception, so _run_orchestrator leaves the file where it is
CancelRunning ==
    /\ run_state' = [f \in Files |->
                        IF run_state[f] = "running" THEN "cancelled" ELSE run_state[f]]
    /\ callbacks' = callbacks \cup {f \in Files : run_state[f] = "running"}

\* start leaves its loop and enters _shutdown: with active tasks it waits for
\* them, without it returns and the event loop is closed
BeginShutdown ==
    /\ m_pc = "loop"
    /\ ~m_running
    /\ IF ActiveCount > 0
       THEN /\ m_pc' = "shutdown"
            /\ UNCHANGED <<run_state, callbacks>>
       ELSE /\ m_pc' = "stopped"
            /\ CancelRunning
    /\ UNCHANGED <<task_queue, max_concurrent_tasks, m_running, active_tasks,
                   processing_tasks, location, file_status, run_result, start_count>>
    /\ UNCHANGED notMonitorVars

\* _shutdown: the gather of the active tasks is done, or its 30 seconds are
\* over and wait_for cancels it; start returns and the event loop is closed
EndShutdown ==
    /\ m_pc = "shutdown"
    /\ m_pc' = "stopped"
    /\ CancelRunning
    /\ UNCHANGED <<task_queue, max_concurrent_tasks, m_running, active_tasks,
                   processing_tasks, location, file_status, run_result, start_count>>
    /\ UNCHANGED notMonitorVars

NextMonitor ==
    \/ start
    \/ _scan_and_process_tasks
    \/ \E f \in Files : _run_orchestrator(f)
    \/ \E f \in Files : _task_completed(f)
    \/ _handle_shutdown
    \/ BeginShutdown
    \/ EndShutdown

SpecMonitor == InitMonitor /\ [][NextMonitor]_vars

\* the event loop runs every coroutine and callback that is ready, the sleep
\* of the scan loop and the 30 seconds of _shutdown pass, and every
\* orchestrator run comes to an end; signals need not arrive
SpecMonitorFair ==
    SpecMonitor /\ WF_vars(\/ start
                           \/ _scan_and_process_tasks
                           \/ \E f \in Files : _run_orchestrator(f)
                           \/ \E f \in Files : _task_completed(f)
                           \/ BeginShutdown
                           \/ EndShutdown)

\* ------------------------------------------------- claims: the task monitor

\* the orchestrator runs the monitor has started and that have not yet finished
RunningRuns == {f \in Files : run_state[f] = "running"}

\* C37: at any time the number of orchestrator runs that the task monitor has
\* started and that have not yet finished is at most max_concurrent_tasks, for
\* any contents of the pending directories.
C37_RunsBoundedByLimit ==
    m_pc # "idle" => Cardinality(RunningRuns) <= max_concurrent_tasks

\* the valid task files carry different task ids
DistinctTaskIds ==
    \A f, g \in Files :
        (task_queue[f].valid /\ task_queue[g].valid /\ f # g) =>
            task_queue[f].task_id # task_queue[g].task_id

\* the same for pending directories whose files carry different task ids
RunsBoundedWithDistinctIds ==
    (m_pc # "idle" /\ DistinctTaskIds) => C37_RunsBoundedByLimit

\* the monitor has moved the file from pending to active
MovedToActive(f) == "active" \in location[f]

\* the file is in exactly one of completed and failed and not in active, and
\* its run has left active_tasks and processing_tasks
Settled(f) ==
    /\ location[f] \in {{"completed"}, {"failed"}}
    /\ \A t \in MonitorTaskIds : active_tasks[t] # f
    /\ f \notin callbacks
    /\ Stem(f) \notin processing_tasks

\* C38: every task file that the monitor moves from pending to active eventually
\* ends up in exactly one of the completed or failed directories and is removed
\* from active, and its entries leave active_tasks and processing_tasks; this
\* also holds for runs interrupted by shutdown, and no task file is started
\* twice.
C38_ActiveFilesAreSettled ==
    /\ \A f \in Files : MovedToActive(f) ~> Settled(f)
    /\ [](m_pc # "idle" => \A f \in Files : start_count[f] <= 1)

\* the same for the monitors that no signal stops
SettledWithoutShutdown ==
    \/ <>(m_pc \in {"loop", "shutdown", "stopped"} /\ ~m_running)
    \/ C38_ActiveFilesAreSettled

\* the result reports success: success of the hybrid workflow, or status
\* success of execute_task with a dialogue run that ended completed
ReportsSuccess(result) ==
    /\ ~result.raised
    /\ result.success
    /\ result.orchestrator_result \in {"none", "completed"}

\* C39: the task monitor writes a task to the completed directory with status
\* completed only if its orchestrator run reported success; a run whose result
\* reports failure (hybrid workflow success = false, or a dialogue run that
\* ended failed or partial) is recorded as failed.
C39_CompletedOnlyOnSuccess ==
    \A f \in DOMAIN run_state :
        run_state[f] = "returned" =>
            /\ ("completed" \in location[f] /\ file_status[f] = "completed")
                  => ReportsSuccess(run_result[f])
            /\ ~ReportsSuccess(run_result[f])
                  => (location[f] = {"failed"} /\ file_status[f] = "failed")

\* what holds: a run that raised is recorded as failed, every other as completed
RecordedByException ==
    \A f \in DOMAIN run_state :
        run_state[f] = "returned" =>
            /\ location[f] = {file_status[f]}
            /\ file_status[f] = IF run_result[f].raised THEN "failed" ELSE "completed"

====
